---- MODULE Spec2Model ----
(***************************************************************************)
(* A model of the video codec of this repository: the C encoder            *)
(* (test_c/first_iter: read_frames, convert_to_yuv420, create_delta_frames,*)
(* compress_frames, decode_frames) and the Go encoder/decoder (main.go).   *)
(*                                                                         *)
(* Each stage has a specification of its own (SpecDelta, SpecZ, SpecRead,  *)
(* SpecColour, SpecGo).  C arrays are functions over 0..n-1, so that the   *)
(* indices of the model are the indices of the source.  A byte is an       *)
(* integer in 0..255 and byte arithmetic wraps modulo 256 as unsigned char *)
(* and Go's byte do.                                                       *)
(***************************************************************************)
EXTENDS Integers, Sequences, FiniteSets, TLC

(***************************************************************************)
(* Bounds of the model.                                                    *)
(***************************************************************************)
\* the largest frame_count of a sequence given to the delta passes
MaxDeltaFrames == 3

\* the byte values frames are drawn from in the delta specification
DeltaBytes == {0, 1, 255}

\* the frame sizes (bytes per frame) of the delta specification
DeltaSizes == {1, 2}

\* the largest frame_count given to compress_frames and decode_frames
MaxZFrames == 2

\* the frame sizes (yuv_size) of the compression specification: the yuv_size
\* of a 1x1 and of a 2x1 video
ZSizes == {1, 3}

\* the byte values of the frames given to compress_frames
ZBytes == {0, 7}

\* the values an uninitialised byte of a malloc'ed buffer may turn out to hold
Garbage == {7, 90}

\* the longest input file given to read_frames, in bytes
MaxFileLen == 7

\* the byte values of the input file
ReadBytes == {1, 2}

\* the <<width, height>> of the videos read: frame_size 3 and 6
ReadDims == {<<1, 1>>, <<2, 1>>}

\* the <<width, height>> of the frames given to convert_to_yuv420
ColourDims == {<<1, 1>>, <<2, 2>>, <<4, 2>>, <<2, 4>>}

\* the <<r, g, b>> pixels frames are made of: red, blue
Palette == {<<255, 0, 0>>, <<0, 0, 255>>}

\* the most frames given to the Go encoder
MaxGoFrames == 2

\* the most runs of main.go, each on the output of the one before
MaxPasses == 2

\* the <<width, height>> the Go encoder is run with
GoDims == {<<1, 1>>, <<2, 2>>, <<2, 6>>, <<4, 6>>}

\* the <<r, g, b>> pixels of its pictures: red, blue
GoPalette == {<<255, 0, 0>>, <<0, 0, 255>>}

\* the bytes that follow the last whole frame on stdin
GoTails == {<< >>, <<9>>}

\* the most runs a delta frame given to the run-length loop is made of
MaxRleRuns == 3

\* the lengths of these runs: the 4 and 6 of the example in main.go, the
\* most a count byte holds, and one more
RleRunLengths == {4, 6, 255, 256}

\* the bytes of these runs
RleBytes == {0, 1}

\* what the user may type into a number field of the form
FieldValues == {"", "2", "4"}

\* the files the user may choose
FileNames == {"video.rgb24", "encoded.bin"}

\* the most frames in the input file of a C encoder
MaxMainFrames == 2

\* <<DEFAULT_WIDTH, DEFAULT_HEIGHT>>, scaled down from 384x216: both even,
\* more than two rows
DefaultDims == <<2, 4>>

\* the <<target_width, target_height>> part_009 is run with (-w, -h)
TargetDims == {<<1, 1>>, <<2, 2>>, <<1, 6>>}

VARIABLES
    \* ---- delta passes (create_delta_frames, decode_frames' reconstruction)
    dpc,        \* "delta", "recon" or "done"
    dframes,    \* video_frame *frames: frames[i].data, i in 0..frame_count-1
    dorig,      \* the frames as they were before create_delta_frames
    dk,         \* number of iterations of the current outer loop done so far
    \* ---- compress_frames / compressed_frames and decode_frames
    zimpl,      \* "compress_frames" (main.c) or "compressed_frames" (part_007)
    zpc,        \* where the call is
    zframes,    \* the frames given to compress_frames: frames[i].data
    zi,         \* the loop variable i
    strm,       \* z_stream of compress_frames: the input consumed so far
                \* (pending), the bytes written to next_out (out), avail_out
    zcalls,     \* the flush argument of every deflate call so far, in order
    zret,       \* what compress_frames returned: "none" yet, "NULL", "buffer"
    compressed_size,  \* *compressed_size; -1 while not set
    zsource,    \* where decode_frames' compressed_data comes from
    payload,    \* compressed_data[0..compressed_size) of decode_frames
    zout,       \* frames[i].data of decode_frames, for the i allocated so far
    zproduced,  \* the number of bytes inflate has written so far
    \* ---- read_frames
    rimpl,      \* "main_c" (main.c) or "part_005" (read_frames.c)
    rpc,        \* where the call is
    rctx,       \* encoder_context *ctx
    rfile,      \* the bytes of the input file
    rframe_count, \* *frame_count; -1 while not set
    frame_array,  \* frame_array[i].data for the i read so far
    ri,         \* the loop variable i of the read loop
    rret,       \* the value read_frames returned, "none" before it returns
    frames_set, \* whether *frames has been assigned
    rfrees,     \* the calls of free so far: <<what, index>>, in order
    \* ---- convert_to_yuv420
    cimpl,      \* "main_c" (main.c) or "part_006" (convert_to_yuv.c)
    cpc,        \* where the call is
    cctx,       \* encoder_context *ctx
    cframe,     \* video_frame *frame: data and size
    crgb,       \* the RGB24 bytes the frame held when the call was made
    cwrites,    \* for every byte of yuv, the number of stores made to it
    coutside,   \* the offsets stored to beyond the yuv_size bytes of yuv
    \* ---- main.go
    gpc,            \* where main is
    gwidth,         \* width
    gheight,        \* height
    gstdin,         \* the bytes on os.Stdin
    gframes,        \* frames
    gencoded_yuv,   \* the file encoded.yuv
    gencoded,       \* encoded
    gdeflated,      \* deflated
    gdecodedFrames, \* decodedFrames
    gdecoded_yuv,   \* the file decoded.yuv
    gdecoded_rgb24, \* the file decoded.rgb24
    gpass,          \* the number of this run of main
    gprevious_rgb24, \* the decoded.rgb24 of the run before
    gi,             \* the loop variable i of the loop that writes to w
    gwritten,       \* the bytes the flate writer w has been given
    glog,           \* the steps of the encoder so far: <<step, frame index>>
    \* ---- main of the C encoders
    mimpl,          \* "main_c", "vid_codec_c" or "part_009"
    mpc,            \* where main is
    mctx,           \* ctx
    mfile,          \* the bytes of the input file
    mframes,        \* frames
    mframe_count,   \* frame_count
    mi,             \* the loop variable i
    mstrm,          \* strm of the compress function
    mcompressed,    \* compressed: "none", "NULL" or "buffer"
    mcompressed_size, \* compressed_size
    mout,           \* the bytes of the output file
    mout_written,   \* whether the output file was written
    mstatus,        \* what main returned, -1 while it runs
    mlog,           \* the stages run so far: <<stage, frame index>>
    mcause,         \* why main gave up
    \* ---- the run-length loop of main.go
    edelta,         \* delta: the delta frame being encoded
    ej,             \* the loop variable j
    erle,           \* rle
    epc,            \* where the loop is
    \* ---- the web front end (App.jsx)
    activeTab,      \* activeTab: 'compress' or 'decompress'
    loading,        \* loading
    notification,   \* notification: "null" or its type
    fileDetails,    \* fileDetails: "null" or the name of the file chosen
    formData,       \* formData: width, height, num_frames
    submitData      \* the fields of the request fetch has sent last, "none" before

varsDelta == <<dpc, dframes, dorig, dk>>

varsZ == <<zimpl, zpc, zframes, zi, strm, zcalls, zret, compressed_size,
           zsource, payload, zout, zproduced>>

varsRead == <<rimpl, rpc, rctx, rfile, rframe_count, frame_array, ri, rret,
              frames_set, rfrees>>

varsColour == <<cimpl, cpc, cctx, cframe, crgb, cwrites, coutside>>

varsGo == <<gpc, gwidth, gheight, gstdin, gframes, gencoded_yuv, gencoded,
            gdeflated, gdecodedFrames, gdecoded_yuv, gdecoded_rgb24, gpass,
            gprevious_rgb24, gi, gwritten, glog>>

varsMain == <<mimpl, mpc, mctx, mfile, mframes, mframe_count, mi, mstrm,
              mcompressed, mcompressed_size, mout, mout_written, mstatus,
              mlog, mcause>>

varsRle == <<edelta, ej, erle, epc>>

varsApp == <<activeTab, loading, notification, fileDetails, formData, submitData>>

vars == <<varsDelta, varsZ, varsRead, varsColour, varsGo, varsMain,
         varsRle,
         varsApp>>

\* what the actions of one stage leave alone: the variables of the others
othersDelta == <<varsZ, varsRead, varsColour, varsGo, varsMain,
    varsRle,
    varsApp>>

othersZ == <<varsDelta, varsRead, varsColour, varsGo, varsMain,
    varsRle,
    varsApp>>

othersRead == <<varsDelta, varsZ, varsColour, varsGo, varsMain,
    varsRle,
    varsApp>>

othersColour == <<varsDelta, varsZ, varsRead, varsGo, varsMain,
    varsRle,
    varsApp>>

othersGo == <<varsDelta, varsZ, varsRead, varsColour, varsMain,
    varsRle,
    varsApp>>

othersRle == <<varsDelta, varsZ, varsRead, varsColour, varsGo, varsMain,
    varsApp>>

othersApp == <<varsDelta, varsZ, varsRead, varsColour, varsGo, varsMain, varsRle>>

othersMain == <<varsDelta, varsZ, varsRead, varsColour, varsGo,
    varsRle,
    varsApp>>

(***************************************************************************)
(* Helpers on C arrays.                                                    *)
(***************************************************************************)
\* the arrays of n elements drawn from S, indexed as in C
Arr(n, S) == [0..(n - 1) -> S]

\* the number of elements of the array a
Size(a) == Cardinality(DOMAIN a)

(***************************************************************************)
(* Temporal prediction: create_delta_frames and the reconstruction loop of *)
(* decode_frames.                                                          *)
(***************************************************************************)
\* unsigned char a -= b, saturating at 0 instead of wrapping
SubByteSaturating(a, b) == IF a < b THEN 0 ELSE a - b

\* frames[i].data[j] -= frames[i-1].data[j] on unsigned char: wraps modulo 256
SubByte(a, b) == (a - b + 256) % 256

\* frames[i].data[j] += frames[i-1].data[j] on unsigned char: wraps modulo 256
AddByte(a, b) == (a + b) % 256

\* the frames visited in ascending order, 1, 2, ..., frame_count-1
delta_order_ascending(frame_count) == [k \in 1..(frame_count - 1) |-> k]

\* for (int i = frame_count - 1; i > 0; i--): the values of i, in the order
\* in which the loop body runs
delta_order(frame_count) == [k \in 1..(frame_count - 1) |-> frame_count - k]

\* for (int i = 1; i < frame_count; i++): the values of i, in order
recon_order(frame_count) == [k \in 1..(frame_count - 1) |-> k]

\* the inner loop with the subtraction stored into the predecessor frame
delta_frame_into_predecessor(frames, i) ==
    [frames EXCEPT ![i - 1] =
        [j \in DOMAIN frames[i] |-> SubByte(frames[i][j], frames[i - 1][j])]]

\* for (j = 0; j < frames[i].size; j++) frames[i].data[j] -= frames[i-1].data[j]
delta_frame(frames, i) ==
    [frames EXCEPT ![i] =
        [j \in DOMAIN frames[i] |-> SubByte(frames[i][j], frames[i - 1][j])]]

\* for (j = 0; j < frames[i].size; j++) frames[i].data[j] += frames[i-1].data[j]
recon_frame(frames, i) ==
    [frames EXCEPT ![i] =
        [j \in DOMAIN frames[i] |-> AddByte(frames[i][j], frames[i - 1][j])]]

\* the state of the delta passes while another stage is looked at
IdleDelta ==
    /\ dpc = "idle"
    /\ dframes = << >>
    /\ dorig = << >>
    /\ dk = 0

\* the state of compression and decompression while another stage is looked at
IdleZ ==
    /\ zimpl = "none"
    /\ zpc = "idle"
    /\ zframes = << >>
    /\ zi = 0
    /\ strm = << >>
    /\ zcalls = << >>
    /\ zret = "none"
    /\ compressed_size = -1
    /\ zsource = "none"
    /\ payload = << >>
    /\ zout = << >>
    /\ zproduced = 0

\* the state of read_frames while another stage is looked at
IdleRead ==
    /\ rimpl = "none"
    /\ rpc = "idle"
    /\ rctx = << >>
    /\ rfile = << >>
    /\ rframe_count = -1
    /\ frame_array = << >>
    /\ ri = 0
    /\ rret = "none"
    /\ frames_set = FALSE
    /\ rfrees = << >>

\* the state of convert_to_yuv420 while another stage is looked at
IdleColour ==
    /\ cimpl = "none"
    /\ cpc = "idle"
    /\ cctx = << >>
    /\ cframe = << >>
    /\ crgb = << >>
    /\ cwrites = << >>
    /\ coutside = {}

\* the state of main.go while another stage is looked at
IdleGo ==
    /\ gpc = "idle"
    /\ gwidth = 0
    /\ gheight = 0
    /\ gstdin = << >>
    /\ gframes = << >>
    /\ gencoded_yuv = << >>
    /\ gencoded = << >>
    /\ gdeflated = << >>
    /\ gdecodedFrames = << >>
    /\ gdecoded_yuv = << >>
    /\ gdecoded_rgb24 = << >>
    /\ gpass = 0
    /\ gprevious_rgb24 = << >>
    /\ gi = 0
    /\ gwritten = << >>
    /\ glog = << >>

\* the state of the run-length loop of main.go while another stage is looked at
IdleRle ==
    /\ edelta = << >>
    /\ ej = 0
    /\ erle = << >>
    /\ epc = "idle"

\* the state of the web front end (App.jsx) while another stage is looked at
IdleApp ==
    /\ activeTab = "none"
    /\ loading = FALSE
    /\ notification = "null"
    /\ fileDetails = "null"
    /\ formData = << >>
    /\ submitData = "none"

\* the state of the C encoder programs while another stage is looked at
IdleMain ==
    /\ mimpl = "none"
    /\ mpc = "idle"
    /\ mctx = << >>
    /\ mfile = << >>
    /\ mframes = << >>
    /\ mframe_count = -1
    /\ mi = 0
    /\ mstrm = << >>
    /\ mcompressed = "none"
    /\ mcompressed_size = -1
    /\ mout = << >>
    /\ mout_written = FALSE
    /\ mstatus = -1
    /\ mlog = << >>
    /\ mcause = "none"

InitDelta ==
    /\ IdleApp
    /\ IdleRle
    /\ IdleMain
    /\ IdleZ
    /\ IdleRead
    /\ IdleColour
    /\ IdleGo
    /\ dpc = "delta"
    /\ \E n \in 0..MaxDeltaFrames : \E size \in DeltaSizes :
           dframes \in Arr(n, Arr(size, DeltaBytes))
    /\ dorig = dframes
    /\ dk = 0

\* one iteration of the outer loop of create_delta_frames
create_delta_frames_iter ==
    /\ dpc = "delta"
    /\ dk < Size(delta_order(Size(dframes)))
    /\ dframes' = delta_frame(dframes, delta_order(Size(dframes))[dk + 1])
    /\ dk' = dk + 1
    /\ UNCHANGED <<dpc, dorig, othersDelta>>

\* create_delta_frames returns; the decoder's reconstruction loop starts on
\* the same buffers
create_delta_frames_return ==
    /\ dpc = "delta"
    /\ dk = Size(delta_order(Size(dframes)))
    /\ dpc' = "recon"
    /\ dk' = 0
    /\ UNCHANGED <<dframes, dorig, othersDelta>>

\* one iteration of the reconstruction loop of decode_frames
decode_frames_recon_iter ==
    /\ dpc = "recon"
    /\ dk < Size(recon_order(Size(dframes)))
    /\ dframes' = recon_frame(dframes, recon_order(Size(dframes))[dk + 1])
    /\ dk' = dk + 1
    /\ UNCHANGED <<dpc, dorig, othersDelta>>

\* the reconstruction loop ends
decode_frames_recon_return ==
    /\ dpc = "recon"
    /\ dk = Size(recon_order(Size(dframes)))
    /\ dpc' = "done"
    /\ UNCHANGED <<dframes, dorig, dk, othersDelta>>

NextDelta ==
    \/ create_delta_frames_iter
    \/ create_delta_frames_return
    \/ decode_frames_recon_iter
    \/ decode_frames_recon_return

SpecDelta == InitDelta /\ [][NextDelta]_vars

(***************************************************************************)
(* The compressor.  zlib (deflate, inflate) and Go's compress/flate are    *)
(* libraries the repository calls; they are modelled by what their         *)
(* interface promises: a stateful lossless stream codec.  The encoded      *)
(* stream is a two-byte header, the data as (count, value) runs, and an    *)
(* end marker followed by a checksum, so that a stream can be longer or    *)
(* shorter than its data, can be truncated, and decodes to the data only   *)
(* when it is complete.                                                    *)
(***************************************************************************)
Min(a, b) == IF a < b THEN a ELSE b

\* the C array a as a sequence
ToSeq(a) == [k \in 1..Size(a) |-> a[k - 1]]

\* the concatenation of the frames' data, in index order: what a loop that
\* feeds frames[0], frames[1], ... hands to the compressor
RECURSIVE FlatFrom(_, _)
FlatFrom(frames, i) ==
    IF i >= Size(frames) THEN << >>
    ELSE ToSeq(frames[i]) \o FlatFrom(frames, i + 1)

Flat(frames) == FlatFrom(frames, 0)

\* the first two bytes of a zlib stream at Z_BEST_COMPRESSION
ZHeader == <<120, 218>>

\* the length of the run of equal bytes that starts at data[p], at most 255
RunLength(data, p) ==
    Cardinality({q \in p..Min(Len(data), p + 254) :
                    \A r \in p..q : data[r] = data[p]})

RECURSIVE ZRuns(_, _)
ZRuns(data, p) ==
    IF p > Len(data) THEN << >>
    ELSE <<RunLength(data, p), data[p]>> \o ZRuns(data, p + RunLength(data, p))

RECURSIVE ZSum(_, _)
ZSum(data, p) ==
    IF p > Len(data) THEN 0 ELSE (data[p] + ZSum(data, p + 1)) % 256

\* the complete stream of the data
ZEncode(data) == ZHeader \o ZRuns(data, 1) \o <<0, ZSum(data, 1)>>

\* the data of the runs of a stream from position p on, up to the end marker
\* or to where the stream breaks off
RECURSIVE ZExpand(_, _)
ZExpand(stream, p) ==
    IF p + 1 > Len(stream) \/ stream[p] = 0 THEN << >>
    ELSE [k \in 1..stream[p] |-> stream[p + 1]] \o ZExpand(stream, p + 2)

\* every byte inflate can produce from the stream: nothing without a valid
\* header
ZInflatable(stream) ==
    IF Len(stream) >= 2 /\ SubSeq(stream, 1, 2) = ZHeader
    THEN ZExpand(stream, 3)
    ELSE << >>

\* the position of the end marker of a stream, 0 when it has none
RECURSIVE ZEndAt(_, _)
ZEndAt(stream, p) ==
    IF p > Len(stream) THEN 0
    ELSE IF stream[p] = 0 THEN p
    ELSE ZEndAt(stream, p + 2)

\* the stream is complete: header, runs, end marker and the right checksum
ZComplete(stream) ==
    /\ Len(stream) >= 2
    /\ SubSeq(stream, 1, 2) = ZHeader
    /\ ZEndAt(stream, 3) # 0
    /\ ZEndAt(stream, 3) + 1 = Len(stream)
    /\ stream[Len(stream)] = ZSum(ZInflatable(stream), 1)

\* deflate(&strm, flush) with next_in = chunk, avail_in = Len(chunk).  The
\* inputs of the model are far smaller than zlib's window, so deflate takes
\* all the input and writes only the header until it is asked to finish; it
\* returns Z_BUF_ERROR when there is no room for output at all, Z_STREAM_END
\* when Z_FINISH wrote the whole stream, and Z_OK otherwise (also when
\* Z_FINISH ran out of room).
deflate(s, chunk, flush) ==
    IF s.avail_out = 0 THEN [strm |-> s, ret |-> "Z_BUF_ERROR"]
    ELSE
        LET pending == s.pending \o chunk
            target == IF flush = "Z_FINISH" THEN ZEncode(pending) ELSE ZHeader
            m == Min(s.avail_out, Len(target) - Len(s.out))
            out == s.out \o SubSeq(target, Len(s.out) + 1, Len(s.out) + m)
        IN  [strm |-> [pending |-> pending, out |-> out,
                       avail_out |-> s.avail_out - m],
             ret |-> IF flush = "Z_FINISH" /\ Len(out) = Len(target)
                     THEN "Z_STREAM_END"
                     ELSE IF Len(chunk) > 0 \/ m > 0 THEN "Z_OK"
                     ELSE "Z_BUF_ERROR"]

\* the number of bytes inflate(&strm, Z_NO_FLUSH) writes with avail_out = room
\* when it has written `produced` bytes of the stream before
inflate_count(stream, produced, room) ==
    Min(room, Len(ZInflatable(stream)) - produced)

\* the flush argument with the comparison against frame_count
flush_arg_never_finish(impl, i, frame_count) ==
    IF i = frame_count THEN "Z_FINISH" ELSE "Z_NO_FLUSH"

\* the flush argument of the deflate call for frame i:
\* compress_frames (main.c): (i == frame_count - 1) ? Z_FINISH : Z_NO_FLUSH
\* compressed_frames (part_007): (i == frame_count) ? Z_FINISH : Z_NO_FLUSH
flush_arg(impl, i, frame_count) ==
    IF impl = "compress_frames"
    THEN (IF i = frame_count - 1 THEN "Z_FINISH" ELSE "Z_NO_FLUSH")
    ELSE (IF i = frame_count THEN "Z_FINISH" ELSE "Z_NO_FLUSH")

\* for (i = 0; i < frame_count; i++) total_size += frames[i].size
RECURSIVE total_size_from(_, _)
total_size_from(frames, i) ==
    IF i >= Size(frames) THEN 0
    ELSE Size(frames[i]) + total_size_from(frames, i + 1)

total_size(frames) == total_size_from(frames, 0)

\* the streams decode_frames may be given for the frames: the complete
\* stream, every truncation of it, and the stream with a damaged header
FilePayloads(frames) ==
    LET whole == ZEncode(Flat(frames))
    IN  {SubSeq(whole, 1, n) : n \in 0..Len(whole)}
            \cup {[whole EXCEPT ![1] = 0]}

InitZ ==
    /\ IdleApp
    /\ IdleRle
    /\ IdleMain
    /\ IdleDelta
    /\ IdleRead
    /\ IdleColour
    /\ IdleGo
    /\ zimpl \in {"compress_frames", "compressed_frames"}
    /\ zpc = "cf_entry"
    /\ \E n \in 0..MaxZFrames : \E size \in ZSizes :
           zframes \in Arr(n, Arr(size, ZBytes))
    /\ zi = 0
    /\ strm = << >>
    /\ zcalls = << >>
    /\ zret = "none"
    /\ compressed_size = -1
    /\ zsource = "none"
    /\ payload = << >>
    /\ zout = << >>
    /\ zproduced = 0

\* deflateInit(&strm, Z_BEST_COMPRESSION) != Z_OK: return NULL
compress_frames_deflateInit_fails ==
    /\ zpc = "cf_entry"
    /\ zpc' = "cf_returned"
    /\ zret' = "NULL"
    /\ UNCHANGED <<zimpl, zframes, zi, strm, zcalls, compressed_size,
                   zsource, payload, zout, zproduced, othersZ>>

\* compressed = malloc(total_size) gives NULL (which malloc(0) may do as
\* well): deflateEnd, return NULL
compress_frames_malloc_fails ==
    /\ zpc = "cf_entry"
    /\ zpc' = "cf_returned"
    /\ zret' = "NULL"
    /\ strm' = [pending |-> << >>, out |-> << >>, avail_out |-> 0]
    /\ UNCHANGED <<zimpl, zframes, zi, zcalls, compressed_size,
                   zsource, payload, zout, zproduced, othersZ>>

\* deflateInit and malloc succeeded: avail_out = total_size, next_out =
\* compressed, and the loop starts at i = 0
compress_frames_begin ==
    /\ zpc = "cf_entry"
    /\ zpc' = "cf_loop"
    /\ strm' = [pending |-> << >>, out |-> << >>,
                avail_out |-> total_size(zframes)]
    /\ zi' = 0
    /\ UNCHANGED <<zimpl, zframes, zcalls, zret, compressed_size,
                   zsource, payload, zout, zproduced, othersZ>>

\* one iteration of the loop: avail_in, next_in = frames[i], then deflate;
\* anything but Z_OK frees the buffer and returns NULL
compress_frames_deflate ==
    /\ zpc = "cf_loop"
    /\ zi < Size(zframes)
    /\ LET flush == flush_arg(zimpl, zi, Size(zframes))
           r == deflate(strm, ToSeq(zframes[zi]), flush)
       IN  /\ zcalls' = Append(zcalls, flush)
           /\ strm' = r.strm
           /\ IF r.ret # "Z_OK"
              THEN /\ zpc' = "cf_returned"
                   /\ zret' = "NULL"
                   /\ zi' = zi
              ELSE /\ zpc' = "cf_loop"
                   /\ zret' = zret
                   /\ zi' = zi + 1
    /\ UNCHANGED <<zimpl, zframes, compressed_size,
                   zsource, payload, zout, zproduced, othersZ>>

\* the loop is over: *compressed_size = total_size - strm.avail_out,
\* deflateEnd, return compressed
compress_frames_return ==
    /\ zpc = "cf_loop"
    /\ zi >= Size(zframes)
    /\ zpc' = "cf_returned"
    /\ zret' = "buffer"
    /\ compressed_size' = total_size(zframes) - strm.avail_out
    /\ UNCHANGED <<zimpl, zframes, zi, strm, zcalls,
                   zsource, payload, zout, zproduced, othersZ>>

\* decode_frames is called on what compress_frames returned, with the
\* frame_count and yuv_size of the frames that were compressed
decode_frames_call_compressed ==
    /\ zpc = "cf_returned"
    /\ zret = "buffer"
    /\ zpc' = "df_inflate"
    /\ zsource' = "compressed"
    /\ payload' = SubSeq(strm.out, 1, compressed_size)
    /\ zi' = 0
    /\ UNCHANGED <<zimpl, zframes, strm, zcalls, zret, compressed_size,
                   zout, zproduced, othersZ>>

\* decode_frames is called on a stream read from a file: the stream of the
\* frames, whole, cut short or damaged
decode_frames_call_file ==
    /\ zpc = "cf_entry"
    /\ zpc' = "df_inflate"
    /\ zsource' = "file"
    /\ payload' \in FilePayloads(zframes)
    /\ zi' = 0
    /\ UNCHANGED <<zimpl, zframes, strm, zcalls, zret, compressed_size,
                   zout, zproduced, othersZ>>

\* one iteration of the first loop of decode_frames: frames[i].data =
\* malloc(yuv_size) (uninitialised), avail_out = yuv_size, inflate; the return
\* value of inflate is not looked at
decode_frames_inflate ==
    /\ zpc = "df_inflate"
    /\ zi < Size(zframes)
    /\ LET yuv_size == Size(zframes[zi])
           m == inflate_count(payload, zproduced, yuv_size)
           data == ZInflatable(payload)
       IN  /\ \E g \in [m..(yuv_size - 1) -> Garbage] :
                 zout' = [k \in 0..zi |->
                             IF k < zi THEN zout[k]
                             ELSE [j \in 0..(yuv_size - 1) |->
                                      IF j < m THEN data[zproduced + j + 1]
                                      ELSE g[j]]]
           /\ zproduced' = zproduced + m
    /\ zi' = zi + 1
    /\ UNCHANGED <<zimpl, zpc, zframes, strm, zcalls, zret, compressed_size,
                   zsource, payload, othersZ>>

\* the first loop is over: inflateEnd, and the reconstruction loop starts
decode_frames_inflateEnd ==
    /\ zpc = "df_inflate"
    /\ zi >= Size(zframes)
    /\ zpc' = "df_recon"
    /\ zi' = 0
    /\ UNCHANGED <<zimpl, zframes, strm, zcalls, zret, compressed_size,
                   zsource, payload, zout, zproduced, othersZ>>

\* one iteration of the reconstruction loop (zi counts the iterations done)
decode_frames_recon ==
    /\ zpc = "df_recon"
    /\ zi < Size(recon_order(Size(zout)))
    /\ zout' = recon_frame(zout, recon_order(Size(zout))[zi + 1])
    /\ zi' = zi + 1
    /\ UNCHANGED <<zimpl, zpc, zframes, strm, zcalls, zret, compressed_size,
                   zsource, payload, zproduced, othersZ>>

\* decode_frames returns (it is void: there is no error to report)
decode_frames_return ==
    /\ zpc = "df_recon"
    /\ zi >= Size(recon_order(Size(zout)))
    /\ zpc' = "df_returned"
    /\ UNCHANGED <<zimpl, zframes, zi, strm, zcalls, zret, compressed_size,
                   zsource, payload, zout, zproduced, othersZ>>

NextZ ==
    \/ compress_frames_deflateInit_fails
    \/ compress_frames_malloc_fails
    \/ compress_frames_begin
    \/ compress_frames_deflate
    \/ compress_frames_return
    \/ decode_frames_call_compressed
    \/ decode_frames_call_file
    \/ decode_frames_inflate
    \/ decode_frames_inflateEnd
    \/ decode_frames_recon
    \/ decode_frames_return

SpecZ == InitZ /\ [][NextZ]_vars

(***************************************************************************)
(* The encoder context and read_frames (main.c, and read_frames.c in       *)
(* part_005).                                                              *)
(***************************************************************************)
\* an init_encoder that would size the YUV frame without subsampling
init_encoder_yuv444(width, height) ==
    [width |-> width, height |-> height,
     frame_size |-> width * height * 3,
     yuv_size |-> width * height * 3]

\* init_encoder: frame_size = width * height * 3 (RGB24),
\* yuv_size = width * height + (width * height / 2) (YUV420)
init_encoder(width, height) ==
    [width |-> width, height |-> height,
     frame_size |-> width * height * 3,
     yuv_size |-> width * height + ((width * height) \div 2)]

\* the count loop with the comparison dropped: every fread that returns
\* something counts, a short trailing chunk included
count_frames_any_read(impl, file_len, frame_size) ==
    (file_len + frame_size - 1) \div frame_size

\* the value of count after the first loop over a file of file_len bytes:
\* main.c:    while ((bytes_read = fread(...)) == ctx->frame_size) count++;
\* part_005:  while ((bytes_read = fread(...))) count++;
count_frames(impl, file_len, frame_size) ==
    IF impl = "main_c"
    THEN file_len \div frame_size
    ELSE (file_len + frame_size - 1) \div frame_size

\* the number of bytes fread(frame_array[i].data, 1, frame_size, fp) reads
\* when the i frames before it were read in full
fread_count(file_len, frame_size, i) ==
    Min(frame_size, file_len - i * frame_size)

\* the calls of free when the allocation of frame i's buffer fails:
\* main.c:   for (j = 0; j < i; j++) free(frame_array[j].data);
\* part_005: for (j = 0; j < i; j++) free(frame_array);
\* then, in both, free(frame_array); free(buffer);
frees_on_failure(impl, i) ==
    [j \in 1..i |-> IF impl = "main_c" THEN <<"data", j - 1>>
                    ELSE <<"frame_array", 0>>]
        \o << <<"frame_array", 0>>, <<"buffer", 0>> >>

\* some pointer is passed to free more than once
freed_twice(frees) ==
    \E a, b \in DOMAIN frees : a # b /\ frees[a] = frees[b]

InitRead ==
    /\ IdleApp
    /\ IdleRle
    /\ IdleMain
    /\ IdleDelta
    /\ IdleZ
    /\ IdleColour
    /\ IdleGo
    /\ rimpl \in {"main_c", "part_005"}
    /\ rpc = "rf_entry"
    /\ \E d \in ReadDims : rctx = init_encoder(d[1], d[2])
    /\ \E n \in 0..MaxFileLen : rfile \in [1..n -> ReadBytes]
    /\ rframe_count = -1
    /\ frame_array = << >>
    /\ ri = 0
    /\ rret = "none"
    /\ frames_set = FALSE
    /\ rfrees = << >>

\* fopen fails: return -1
read_frames_fopen_fails ==
    /\ rpc = "rf_entry"
    /\ rpc' = "rf_returned"
    /\ rret' = -1
    /\ UNCHANGED <<rimpl, rctx, rfile, rframe_count, frame_array, ri,
                   frames_set, rfrees, othersRead>>

\* buffer = malloc(frame_size) fails: fclose, return -1
read_frames_buffer_malloc_fails ==
    /\ rpc = "rf_entry"
    /\ rpc' = "rf_returned"
    /\ rret' = -1
    /\ UNCHANGED <<rimpl, rctx, rfile, rframe_count, frame_array, ri,
                   frames_set, rfrees, othersRead>>

\* the file is open and buffer allocated: the count loop runs to the end of
\* the file and *frame_count = count
read_frames_count ==
    /\ rpc = "rf_entry"
    /\ rpc' = "rf_counted"
    /\ rframe_count' = count_frames(rimpl, Len(rfile), rctx.frame_size)
    /\ UNCHANGED <<rimpl, rctx, rfile, frame_array, ri, rret,
                   frames_set, rfrees, othersRead>>

\* frame_array = malloc(count * sizeof(video_frame)) gives NULL (which
\* malloc(0) may do as well): return -1
read_frames_array_malloc_fails ==
    /\ rpc = "rf_counted"
    /\ rpc' = "rf_returned"
    /\ rret' = -1
    /\ rfrees' = Append(rfrees, <<"buffer", 0>>)
    /\ UNCHANGED <<rimpl, rctx, rfile, rframe_count, frame_array, ri,
                   frames_set, othersRead>>

\* frame_array allocated: fseek(fp, 0, SEEK_SET) and the read loop starts
read_frames_seek ==
    /\ rpc = "rf_counted"
    /\ rpc' = "rf_reading"
    /\ ri' = 0
    /\ frame_array' = << >>
    /\ UNCHANGED <<rimpl, rctx, rfile, rframe_count, rret,
                   frames_set, rfrees, othersRead>>

\* frame_array[i].data = malloc(frame_size) fails: clean up, return -1.
\* Freeing a pointer a second time is undefined: the allocator aborts the
\* program or lets it go on.
read_frames_frame_malloc_fails ==
    /\ rpc = "rf_reading"
    /\ ri < rframe_count
    /\ rfrees' = rfrees \o frees_on_failure(rimpl, ri)
    /\ \/ /\ rpc' = "rf_returned"
          /\ rret' = -1
       \/ /\ freed_twice(frees_on_failure(rimpl, ri))
          /\ rpc' = "rf_aborted"
          /\ rret' = rret
    /\ UNCHANGED <<rimpl, rctx, rfile, rframe_count, frame_array, ri,
                   frames_set, othersRead>>

\* one iteration of the read loop: the buffer of frame i is allocated
\* (uninitialised), its size set, and fread fills what the file still has
read_frames_read ==
    /\ rpc = "rf_reading"
    /\ ri < rframe_count
    /\ LET n == fread_count(Len(rfile), rctx.frame_size, ri)
       IN  \E g \in [n..(rctx.frame_size - 1) -> Garbage] :
               frame_array' = [k \in 0..ri |->
                   IF k < ri THEN frame_array[k]
                   ELSE [j \in 0..(rctx.frame_size - 1) |->
                            IF j < n THEN rfile[ri * rctx.frame_size + j + 1]
                            ELSE g[j]]]
    /\ ri' = ri + 1
    /\ UNCHANGED <<rimpl, rpc, rctx, rfile, rframe_count, rret,
                   frames_set, rfrees, othersRead>>

\* the read loop is over: *frames = frame_array, return 0
read_frames_return ==
    /\ rpc = "rf_reading"
    /\ ri >= rframe_count
    /\ rpc' = "rf_returned"
    /\ rret' = 0
    /\ frames_set' = TRUE
    /\ rfrees' = Append(rfrees, <<"buffer", 0>>)
    /\ UNCHANGED <<rimpl, rctx, rfile, rframe_count, frame_array, ri,
                   othersRead>>

NextRead ==
    \/ read_frames_fopen_fails
    \/ read_frames_buffer_malloc_fails
    \/ read_frames_count
    \/ read_frames_array_malloc_fails
    \/ read_frames_seek
    \/ read_frames_frame_malloc_fails
    \/ read_frames_read
    \/ read_frames_return

SpecRead == InitRead /\ [][NextRead]_vars

(***************************************************************************)
(* The colour transform.  The source computes in floating point with       *)
(* decimal coefficients (four decimals at most) and truncates the clamped  *)
(* result to a byte; the model computes the same values exactly, in        *)
(* ten-thousandths.  The two can differ only where the exact value is a    *)
(* whole number and the floating-point sum falls just below it; the        *)
(* colours of Palette and the values derived from them are not such cases. *)
(***************************************************************************)
\* ten-thousandths: YUV_V_B has four decimals
Scale == 10000

\* the coefficients of main.c and codec.h (ITU-R BT.601), times Scale
YUV_Y_R == 2990
YUV_Y_G == 5870
YUV_Y_B == 1140
YUV_U_R == -1690
YUV_U_G == -3310
YUV_U_B == 4490
YUV_V_R == 4990
YUV_V_G == -4180
YUV_V_B == -813

\* float clamp(float x, float min, float max)
clamp(x, min, max) == IF x < min THEN min ELSE IF x > max THEN max ELSE x

\* (unsigned char)clamp(x, 0, 255) of a value x given in ten-thousandths
clamp_to_byte(x) == clamp(x, 0, 255 * Scale) \div Scale

\* the luma with the coefficients of red and blue exchanged
luma_of_exchanged(px) ==
    YUV_Y_B * px[1] + YUV_Y_G * px[2] + YUV_Y_R * px[3]

\* y = YUV_Y_R * r + YUV_Y_G * g + YUV_Y_B * b
luma_of(px) == YUV_Y_R * px[1] + YUV_Y_G * px[2] + YUV_Y_B * px[3]

\* u = YUV_U_R * r + YUV_U_G * g + YUV_U_B * b + 128
chroma_u_of(px) ==
    YUV_U_R * px[1] + YUV_U_G * px[2] + YUV_U_B * px[3] + 128 * Scale

\* v = YUV_V_R * r + YUV_V_G * g + YUV_V_B * b + 128
chroma_v_of(px) ==
    YUV_V_R * px[1] + YUV_V_G * px[2] + YUV_V_B * px[3] + 128 * Scale

\* the pixel at row i, column j of an RGB24 buffer: idx = (i * width + j) * 3,
\* r = rgb[idx], g = rgb[idx + 1], b = rgb[idx + 2]
pixel_at(rgb, width, i, j) ==
    <<rgb[(i * width + j) * 3], rgb[(i * width + j) * 3 + 1],
      rgb[(i * width + j) * 3 + 2]>>

\* the offsets of the planes in the yuv buffer: Y = yuv,
\* U = yuv + width * height, V = U + (width * height / 4)
u_plane(ctx) == ctx.width * ctx.height

v_plane(ctx) == u_plane(ctx) + ((ctx.width * ctx.height) \div 4)

\* the index into the U plane of the sample of the pixel at row i, column j:
\* main.c:   U[(i/2) * (ctx->width/2) + j/2]
\* part_006: U[(1/2) * (ctx->width/2) + j/2]
u_index(impl, ctx, i, j) ==
    IF impl = "main_c"
    THEN (i \div 2) * (ctx.width \div 2) + (j \div 2)
    ELSE (1 \div 2) * (ctx.width \div 2) + (j \div 2)

\* the index into the V plane: V[(i/2) * (ctx->width/2) + j/2]
v_index(ctx, i, j) == (i \div 2) * (ctx.width \div 2) + (j \div 2)

\* The stores of convert_to_yuv420, numbered in program order: the pixel at
\* row i, column j makes store 3 * (i * width + j) into Y and, when i and j
\* are even, stores 3 * (i * width + j) + 1 into U and + 2 into V.
store_row(ctx, s) == (s \div 3) \div ctx.width

store_col(ctx, s) == (s \div 3) % ctx.width

\* whether store number s takes place
store_happens(ctx, s) ==
    \/ s % 3 = 0
    \/ store_row(ctx, s) % 2 = 0 /\ store_col(ctx, s) % 2 = 0

\* the offset in the yuv buffer that store number s writes
store_offset(impl, ctx, s) ==
    LET i == store_row(ctx, s)
        j == store_col(ctx, s)
    IN  CASE s % 3 = 0 -> i * ctx.width + j
          [] s % 3 = 1 -> u_plane(ctx) + u_index(impl, ctx, i, j)
          [] OTHER -> v_plane(ctx) + v_index(ctx, i, j)

\* the byte that store number s writes
store_value(ctx, rgb, s) ==
    LET px == pixel_at(rgb, ctx.width, store_row(ctx, s), store_col(ctx, s))
    IN  CASE s % 3 = 0 -> clamp_to_byte(luma_of(px))
          [] s % 3 = 1 -> clamp_to_byte(chroma_u_of(px))
          [] OTHER -> clamp_to_byte(chroma_v_of(px))

\* the stores that write offset k of the yuv buffer
stores_to(impl, ctx, k) ==
    {s \in 0..(3 * ctx.width * ctx.height - 1) :
        store_happens(ctx, s) /\ store_offset(impl, ctx, s) = k}

\* the last of a non-empty set of stores
last_store(S) == CHOOSE s \in S : \A t \in S : t <= s

\* the offsets written that lie outside the yuv_size bytes of the buffer
stores_outside(impl, ctx) ==
    {store_offset(impl, ctx, s) :
        s \in {t \in 0..(3 * ctx.width * ctx.height - 1) :
                  store_happens(ctx, t)
                  /\ store_offset(impl, ctx, t) >= ctx.yuv_size}}

InitColour ==
    /\ IdleApp
    /\ IdleRle
    /\ IdleMain
    /\ IdleDelta
    /\ IdleZ
    /\ IdleRead
    /\ IdleGo
    /\ cimpl \in {"main_c", "part_006"}
    /\ cpc = "cv_entry"
    /\ \E d \in ColourDims : cctx = init_encoder(d[1], d[2])
    /\ \E px \in [0..(cctx.width * cctx.height - 1) -> Palette] :
           cframe = [data |-> [k \in 0..(cctx.frame_size - 1) |->
                                  px[k \div 3][(k % 3) + 1]],
                     size |-> cctx.frame_size]
    /\ crgb = cframe.data
    /\ cwrites = << >>
    /\ coutside = {}

\* yuv = malloc(ctx->yuv_size) gives NULL; it is not checked, and the first
\* store of the loop, Y[0] = ..., goes through the null pointer
convert_to_yuv420_malloc_fails ==
    /\ cpc = "cv_entry"
    /\ cpc' = "cv_null_store"
    /\ UNCHANGED <<cimpl, cctx, cframe, crgb, cwrites, coutside, othersColour>>

\* the whole of convert_to_yuv420 with the buffer allocated: the loop over
\* the pixels, free(frame->data), frame->data = yuv, frame->size = yuv_size.
\* A byte of yuv no store writes keeps what malloc left there.
convert_to_yuv420 ==
    /\ cpc = "cv_entry"
    /\ cpc' = "cv_returned"
    /\ LET unwritten == {k \in 0..(cctx.yuv_size - 1) :
                            stores_to(cimpl, cctx, k) = {}}
       IN  \E g \in [unwritten -> Garbage] :
               cframe' =
                   [data |-> [k \in 0..(cctx.yuv_size - 1) |->
                        IF k \in unwritten THEN g[k]
                        ELSE store_value(cctx, crgb,
                                 last_store(stores_to(cimpl, cctx, k)))],
                    size |-> cctx.yuv_size]
    /\ cwrites' = [k \in 0..(cctx.yuv_size - 1) |->
                      Cardinality(stores_to(cimpl, cctx, k))]
    /\ coutside' = stores_outside(cimpl, cctx)
    /\ UNCHANGED <<cimpl, cctx, crgb, othersColour>>

NextColour ==
    \/ convert_to_yuv420_malloc_fails
    \/ convert_to_yuv420

SpecColour == InitColour /\ [][NextColour]_vars

(***************************************************************************)
(* main.go: the Go encoder and decoder, one run of main after another.     *)
(* The colour arithmetic is float64 in the source and exact here (see the  *)
(* note at Scale); none of the values the pictures of GoPictures lead to   *)
(* is a whole number before it is truncated, so the two agree.             *)
(***************************************************************************)
\* thousandths: the coefficients of the inverse transform have three decimals
InvScale == 1000

\* uint8(x) of a non-negative x given in ten-thousandths
uint8(x) == (x \div Scale) % 256

\* r, g, b := frame[3*j], frame[3*j+1], frame[3*j+2]
go_pixel(frame, j) == <<frame[3 * j], frame[3 * j + 1], frame[3 * j + 2]>>

\* frames = append(frames, frame) while io.ReadFull fills a whole frame: the
\* input is cut into pieces of n bytes and a short last piece is dropped
go_read_frames(input, n) ==
    [i \in 0..((Len(input) \div n) - 1) |->
        [k \in 0..(n - 1) |-> input[i * n + k + 1]]]

\* the <<x, y>> the downsampling loops visit: x over the rows, y over the
\* columns, both in steps of two
go_blocks(w, h) ==
    {b \in (0..(h - 1)) \X (0..(w - 1)) : b[1] % 2 = 0 /\ b[2] % 2 = 0}

\* the indices of U and of V read for the block at <<x, y>>
go_block_reads(w, b) ==
    {b[1] * w + b[2], b[1] * w + b[2] + 1,
     (b[1] + 1) * w + b[2], (b[1] + 1) * w + b[2] + 1}

\* the index of uDownsampled and vDownsampled written: x/2*width/2+y/2
go_block_store(w, b) == (((b[1] \div 2) * w) \div 2) + (b[2] \div 2)

\* the downsampling loop indexes U, V (width*height entries) or uDownsampled,
\* vDownsampled (width*height/4 entries) out of range: a run-time panic
go_downsample_panics(w, h) ==
    \E b \in go_blocks(w, h) :
        \/ \E r \in go_block_reads(w, b) : r >= w * h
        \/ go_block_store(w, b) >= (w * h) \div 4

\* the sum of the four u (v) values of a block, in ten-thousandths
go_block_u(frame, w, b) ==
    LET r == [p \in go_block_reads(w, b) |-> chroma_u_of(go_pixel(frame, p))]
    IN  r[b[1] * w + b[2]] + r[b[1] * w + b[2] + 1]
        + r[(b[1] + 1) * w + b[2]] + r[(b[1] + 1) * w + b[2] + 1]

go_block_v(frame, w, b) ==
    LET r == [p \in go_block_reads(w, b) |-> chroma_v_of(go_pixel(frame, p))]
    IN  r[b[1] * w + b[2]] + r[b[1] * w + b[2] + 1]
        + r[(b[1] + 1) * w + b[2]] + r[(b[1] + 1) * w + b[2] + 1]

\* the block whose store to index c of the downsampled slices is the last
go_last_block(w, h, c) ==
    LET S == {b \in go_blocks(w, h) : go_block_store(w, b) = c}
    IN  CHOOSE b \in S : \A t \in S : t[1] * w + t[2] <= b[1] * w + b[2]

\* whether any block stores to index c (make() left a zero there otherwise)
go_stored(w, h, c) == \E b \in go_blocks(w, h) : go_block_store(w, b) = c

\* yuvFrame of one RGB frame: Y, then uDownsampled, then vDownsampled
go_yuv_frame(frame, w, h) ==
    LET q == (w * h) \div 4
    IN  [k \in 0..(w * h + 2 * q - 1) |->
            IF k < w * h
            THEN uint8(luma_of(go_pixel(frame, k)))
            ELSE IF k < w * h + q
            THEN IF go_stored(w, h, k - w * h)
                 THEN uint8(go_block_u(frame, w,
                                go_last_block(w, h, k - w * h)) \div 4)
                 ELSE 0
            ELSE IF go_stored(w, h, k - w * h - q)
                 THEN uint8(go_block_v(frame, w,
                                go_last_block(w, h, k - w * h - q)) \div 4)
                 ELSE 0]

\* delta[j] = frames[i][j] - frames[i-1][j], in bytes
go_delta_frame_reversed(cur, prev) ==
    [j \in DOMAIN cur |-> (prev[j] - cur[j] + 256) % 256]

go_delta_frame(cur, prev) ==
    [j \in DOMAIN cur |-> (cur[j] - prev[j] + 256) % 256]

\* a writer that would be given every frame as it is
go_deltas_none(frames) == [i \in DOMAIN frames |-> frames[i]]

\* what the writer w is given: frames[0], then the delta of every later frame
go_deltas(frames) ==
    [i \in DOMAIN frames |->
        IF i = 0 THEN frames[0] ELSE go_delta_frame(frames[i], frames[i - 1])]

\* the run-length encoding of a delta frame: count, value, count, value, ...
\* with every count at most 255
rle(delta) == ZRuns(ToSeq(delta), 1)

\* encoded: the keyframe as it is, every other frame as the rle of its delta
go_encoded(frames) ==
    [i \in DOMAIN frames |->
        IF i = 0 THEN ToSeq(frames[0]) ELSE rle(go_deltas(frames)[i])]

\* compress/flate (a library, modelled like zlib above without the zlib
\* header and checksum): what flate.NewWriter(&deflated, ...) has written
\* to deflated after the Writes of data and the Close
flate_Writer(data) == ZRuns(data, 1) \o <<0>>

\* the stream has its end: flate.NewReader reads it without an error
flate_complete(stream) == ZEndAt(stream, 1) # 0

\* what io.Copy(&inflated, r) puts into inflated
flate_Reader(stream) == ZExpand(stream, 1)

\* decodedFrames[i][j] += decodedFrames[i-1][j], in bytes
go_add_frame_keeps_delta(delta, prev) == delta

go_add_frame(delta, prev) ==
    [j \in DOMAIN delta |-> (delta[j] + prev[j]) % 256]

\* frame i after the loop over decodedFrames: the loop runs upwards, so the
\* frame added is the one already rebuilt
RECURSIVE go_rebuilt(_, _)
go_rebuilt(decoded, i) ==
    IF i = 0 THEN decoded[0]
    ELSE go_add_frame(decoded[i], go_rebuilt(decoded, i - 1))

\* the offset in the frame where the slice V starts:
\* V := frame[width*height+width+height/4:]
go_v_offset(w, h) == w * h + w + (h \div 4)

\* the index into U and into V for the pixel at row j, column k
go_chroma_index(w, j, k) == (j \div 2) * (w \div 2) + (k \div 2)

\* taking the slices Y, U, V of a frame of n bytes or indexing them goes out
\* of range: a run-time panic
go_to_rgb_panics(w, h, n) ==
    \/ w * h > n
    \/ w * h + ((w * h) \div 4) > n
    \/ go_v_offset(w, h) > n
    \/ \E j \in 0..(h - 1) : \E k \in 0..(w - 1) :
          \/ go_chroma_index(w, j, k) >= (w * h) \div 4
          \/ go_chroma_index(w, j, k) >= n - go_v_offset(w, h)

\* uint8(clamp(x, 0, 255)) of a value x given in thousandths
go_clamp_byte(x) == clamp(x, 0, 255 * InvScale) \div InvScale

\* the three bytes appended to rgb for the pixel at row j, column k
go_rgb_pixel(frame, w, h, j, k) ==
    LET y == frame[j * w + k]
        u == frame[w * h + go_chroma_index(w, j, k)] - 128
        v == frame[go_v_offset(w, h) + go_chroma_index(w, j, k)] - 128
    IN  <<go_clamp_byte(InvScale * y + 1402 * v),
          go_clamp_byte(InvScale * y - 344 * u - 714 * v),
          go_clamp_byte(InvScale * y + 1772 * u)>>

\* rgb of one YUV frame: width*height*3 bytes, row by row
go_rgb_frame(frame, w, h) ==
    [m \in 0..(w * h * 3 - 1) |->
        go_rgb_pixel(frame, w, h, (m \div 3) \div w, (m \div 3) % w)[(m % 3) + 1]]

\* the pictures given to the encoder: every third pixel has the colour a,
\* the others the colour b
GoPictures(w, h) ==
    {[k \in 1..(3 * w * h) |->
         (IF ((k - 1) \div 3) % 3 = 0 THEN a ELSE b)[((k - 1) % 3) + 1]] :
       a \in GoPalette, b \in GoPalette}

\* the concatenation of a sequence of byte sequences
RECURSIVE Concat(_)
Concat(ss) == IF ss = << >> THEN << >> ELSE Head(ss) \o Concat(Tail(ss))

\* bytes.Join(frames, nil)
go_join(frames) == Concat([i \in 1..Size(frames) |-> ToSeq(frames[i - 1])])

InitGo ==
    /\ IdleApp
    /\ IdleRle
    /\ IdleMain
    /\ IdleDelta
    /\ IdleZ
    /\ IdleRead
    /\ IdleColour
    /\ gpc = "start"
    /\ \E d \in GoDims :
          /\ gwidth = d[1]
          /\ gheight = d[2]
          /\ \E n \in 0..MaxGoFrames :
             \E ps \in [1..n -> GoPictures(d[1], d[2])] :
             \E t \in GoTails :
                 gstdin = Concat(ps) \o t
    /\ gframes = << >>
    /\ gencoded_yuv = << >>
    /\ gencoded = << >>
    /\ gdeflated = << >>
    /\ gdecodedFrames = << >>
    /\ gdecoded_yuv = << >>
    /\ gdecoded_rgb24 = << >>
    /\ gpass = 1
    /\ gprevious_rgb24 = << >>
    /\ gi = 0
    /\ gwritten = << >>
    /\ glog = << >>

\* the entries a loop over the frames from..(n - 1) adds to the log
go_steps(step, from, n) ==
    [k \in 1..(n - from) |-> <<step, from + k - 1>>]

\* main.go:27-42: the frames are read from stdin
go_read ==
    /\ gpc = "start"
    /\ gframes' = go_read_frames(gstdin, gwidth * gheight * 3)
    /\ gpc' = "to_yuv"
    /\ UNCHANGED <<gwidth, gheight, gstdin, gencoded_yuv, gencoded, gdeflated,
                   gdecodedFrames, gdecoded_yuv, gdecoded_rgb24, gpass,
                   gprevious_rgb24, gi, gwritten, glog,
                   othersGo>>

\* main.go:48-110: every frame is replaced by its YUV420 frame; the
\* downsampling of the first frame panics when its indices go out of range
go_rgb_to_yuv ==
    /\ gpc = "to_yuv"
    /\ IF Size(gframes) > 0 /\ go_downsample_panics(gwidth, gheight)
       THEN /\ gpc' = "panic"
            /\ UNCHANGED <<gframes, glog>>
       ELSE /\ gpc' = "write_encoded"
            /\ gframes' = [i \in DOMAIN gframes |->
                              go_yuv_frame(gframes[i], gwidth, gheight)]
            /\ glog' = glog \o go_steps("convert", 0, Size(gframes))
    /\ UNCHANGED <<gwidth, gheight, gstdin, gencoded_yuv, gencoded, gdeflated,
                   gdecodedFrames, gdecoded_yuv, gdecoded_rgb24, gpass,
                   gprevious_rgb24, gi, gwritten, othersGo>>

\* main.go:121: os.WriteFile("encoded.yuv", bytes.Join(frames, nil), 0644)
go_write_encoded_yuv ==
    /\ gpc = "write_encoded"
    /\ gencoded_yuv' = go_join(gframes)
    /\ gpc' = "rle"
    /\ UNCHANGED <<gwidth, gheight, gstdin, gframes, gencoded, gdeflated,
                   gdecodedFrames, gdecoded_yuv, gdecoded_rgb24, gpass,
                   gprevious_rgb24, gi, gwritten, glog,
                   othersGo>>

\* main.go:121-123: the file cannot be written, log.Fatal(err)
go_write_encoded_yuv_fails ==
    /\ gpc = "write_encoded"
    /\ gpc' = "fatal"
    /\ UNCHANGED <<gwidth, gheight, gstdin, gframes, gencoded_yuv, gencoded,
                   gdeflated, gdecodedFrames, gdecoded_yuv, gdecoded_rgb24,
                   gpass, gprevious_rgb24, gi, gwritten, glog,
                   othersGo>>

\* main.go:125-177: encoded, the run-length encoded deltas (only its size
\* is used, in a log line)
go_rle ==
    /\ gpc = "rle"
    /\ gencoded' = go_encoded(gframes)
    /\ glog' = glog \o go_steps("rle", 1, Size(gframes))
    /\ gpc' = "deflate"
    /\ UNCHANGED <<gwidth, gheight, gstdin, gframes, gencoded_yuv, gdeflated,
                   gdecodedFrames, gdecoded_yuv, gdecoded_rgb24, gpass,
                   gprevious_rgb24, gi, gwritten, othersGo>>

\* main.go:195-209: one iteration of the loop that writes to the flate
\* writer: frames[0] as it is, for every later frame the delta computed
\* here
go_deflate_write ==
    /\ gpc = "deflate"
    /\ gi < Size(gframes)
    /\ gwritten' = gwritten \o ToSeq(go_deltas(gframes)[gi])
    /\ glog' = glog \o (IF gi = 0 THEN << >> ELSE << <<"delta", gi>> >>)
                    \o << <<"write", gi>> >>
    /\ gi' = gi + 1
    /\ UNCHANGED <<gpc, gwidth, gheight, gstdin, gframes, gencoded_yuv,
                   gencoded, gdeflated, gdecodedFrames, gdecoded_yuv,
                   gdecoded_rgb24, gpass, gprevious_rgb24, othersGo>>

\* main.go:210-212: the loop is over and the flate writer is closed
go_deflate ==
    /\ gpc = "deflate"
    /\ gi >= Size(gframes)
    /\ gdeflated' = flate_Writer(gwritten)
    /\ gpc' = "inflate"
    /\ UNCHANGED <<gwidth, gheight, gstdin, gframes, gencoded_yuv, gencoded,
                   gdecodedFrames, gdecoded_yuv, gdecoded_rgb24, gpass,
                   gprevious_rgb24, gi, gwritten, glog,
                   othersGo>>

\* main.go:227-247: deflated is inflated and cut into frames of
\* width*height*3/2 bytes; a stream without its end or a short last frame
\* is fatal
go_inflate ==
    /\ gpc = "inflate"
    /\ LET inflated == flate_Reader(gdeflated)
           n == (gwidth * gheight * 3) \div 2
       IN  IF ~flate_complete(gdeflated) \/ Len(inflated) % n # 0
           THEN /\ gpc' = "fatal"
                /\ UNCHANGED gdecodedFrames
           ELSE /\ gpc' = "rebuild"
                /\ gdecodedFrames' = go_read_frames(inflated, n)
    /\ UNCHANGED <<gwidth, gheight, gstdin, gframes, gencoded_yuv, gencoded,
                   gdeflated, gdecoded_yuv, gdecoded_rgb24, gpass,
                   gprevious_rgb24, gi, gwritten, glog,
                   othersGo>>

\* main.go:251-259: the previous frame is added to every frame but the first
go_add_previous ==
    /\ gpc = "rebuild"
    /\ gdecodedFrames' = [i \in DOMAIN gdecodedFrames |->
                             go_rebuilt(gdecodedFrames, i)]
    /\ gpc' = "write_decoded"
    /\ UNCHANGED <<gwidth, gheight, gstdin, gframes, gencoded_yuv, gencoded,
                   gdeflated, gdecoded_yuv, gdecoded_rgb24, gpass,
                   gprevious_rgb24, gi, gwritten, glog,
                   othersGo>>

\* main.go:261: os.WriteFile("decoded.yuv", bytes.Join(decodedFrames, nil), ...)
go_write_decoded_yuv ==
    /\ gpc = "write_decoded"
    /\ gdecoded_yuv' = go_join(gdecodedFrames)
    /\ gpc' = "to_rgb"
    /\ UNCHANGED <<gwidth, gheight, gstdin, gframes, gencoded_yuv, gencoded,
                   gdeflated, gdecodedFrames, gdecoded_rgb24, gpass,
                   gprevious_rgb24, gi, gwritten, glog,
                   othersGo>>

\* main.go:261-263: the file cannot be written, log.Fatal(err)
go_write_decoded_yuv_fails ==
    /\ gpc = "write_decoded"
    /\ gpc' = "fatal"
    /\ UNCHANGED <<gwidth, gheight, gstdin, gframes, gencoded_yuv, gencoded,
                   gdeflated, gdecodedFrames, gdecoded_yuv, gdecoded_rgb24,
                   gpass, gprevious_rgb24, gi, gwritten, glog,
                   othersGo>>

\* main.go:266-286: every decoded frame is replaced by its RGB frame; the
\* first frame panics when a slice or an index goes out of range
go_yuv_to_rgb ==
    /\ gpc = "to_rgb"
    /\ IF /\ Size(gdecodedFrames) > 0
          /\ go_to_rgb_panics(gwidth, gheight, Size(gdecodedFrames[0]))
       THEN /\ gpc' = "panic"
            /\ UNCHANGED gdecodedFrames
       ELSE /\ gpc' = "write_rgb"
            /\ gdecodedFrames' =
                   [i \in DOMAIN gdecodedFrames |->
                       go_rgb_frame(gdecodedFrames[i], gwidth, gheight)]
    /\ UNCHANGED <<gwidth, gheight, gstdin, gframes, gencoded_yuv, gencoded,
                   gdeflated, gdecoded_yuv, gdecoded_rgb24, gpass,
                   gprevious_rgb24, gi, gwritten, glog,
                   othersGo>>

\* main.go:293-303: decoded.rgb24 is created and the frames are written to it
go_write_decoded_rgb24 ==
    /\ gpc = "write_rgb"
    /\ gdecoded_rgb24' = go_join(gdecodedFrames)
    /\ gpc' = "exit"
    /\ UNCHANGED <<gwidth, gheight, gstdin, gframes, gencoded_yuv, gencoded,
                   gdeflated, gdecodedFrames, gdecoded_yuv, gpass,
                   gprevious_rgb24, gi, gwritten, glog,
                   othersGo>>

\* main.go:293-296, 300-302: os.Create or out.Write fails, log.Fatal(err)
go_write_decoded_rgb24_fails ==
    /\ gpc = "write_rgb"
    /\ gpc' = "fatal"
    /\ UNCHANGED <<gwidth, gheight, gstdin, gframes, gencoded_yuv, gencoded,
                   gdeflated, gdecodedFrames, gdecoded_yuv, gdecoded_rgb24,
                   gpass, gprevious_rgb24, gi, gwritten, glog,
                   othersGo>>

\* main is run again, with the same width and height, on the decoded.rgb24
\* the run before has written
go_run_again ==
    /\ gpc = "exit"
    /\ gpass < MaxPasses
    /\ gpass' = gpass + 1
    /\ gstdin' = gdecoded_rgb24
    /\ gprevious_rgb24' = gdecoded_rgb24
    /\ gpc' = "start"
    /\ gframes' = << >>
    /\ gencoded_yuv' = << >>
    /\ gencoded' = << >>
    /\ gdeflated' = << >>
    /\ gdecodedFrames' = << >>
    /\ gdecoded_yuv' = << >>
    /\ gdecoded_rgb24' = << >>
    /\ gi' = 0
    /\ gwritten' = << >>
    /\ glog' = << >>
    /\ UNCHANGED <<gwidth, gheight, othersGo>>

NextGo ==
    \/ go_read
    \/ go_rgb_to_yuv
    \/ go_write_encoded_yuv
    \/ go_write_encoded_yuv_fails
    \/ go_rle
    \/ go_deflate_write
    \/ go_deflate
    \/ go_inflate
    \/ go_add_previous
    \/ go_write_decoded_yuv
    \/ go_write_decoded_yuv_fails
    \/ go_yuv_to_rgb
    \/ go_write_decoded_rgb24
    \/ go_write_decoded_rgb24_fails
    \/ go_run_again

SpecGo == InitGo /\ [][NextGo]_vars

(***************************************************************************)
(* The forward transforms of the C encoder and of the Go encoder side by   *)
(* side: a behaviour is one call of convert_to_yuv420 or the runs of       *)
(* main.go.                                                                *)
(***************************************************************************)
InitTransforms == InitColour \/ InitGo

NextTransforms == NextColour \/ NextGo

SpecTransforms == InitTransforms /\ [][NextTransforms]_vars

(***************************************************************************)
(* The encoder programs in C: main of main.c, main of vid_codec.c (which   *)
(* links the functions of codec.h: read_frames.c, convert_to_yuv.c,        *)
(* create_delta_frames.c, compress_frames.c) and main of the FFmpeg        *)
(* front end in part_009 (which keeps the functions of main.c).  Every     *)
(* buffer malloc returns is filled with one of the Garbage values.         *)
(***************************************************************************)
\* the read_frames, convert_to_yuv420 and compress function a program uses
read_impl(m) == IF m = "vid_codec_c" THEN "part_005" ELSE "main_c"

convert_impl(m) == IF m = "vid_codec_c" THEN "part_006" ELSE "main_c"

compress_impl(m) ==
    IF m = "vid_codec_c" THEN "compressed_frames" ELSE "compress_frames"

\* if (read_frames(...) != 0): main gives up
read_failed_never(ret) == FALSE

read_failed(ret) == ret # 0

\* the frames read_frames leaves in *frames for a file: frame i holds what
\* fread got of bytes i*frame_size ..., and g where fread wrote nothing
frames_of_file(impl, file, frame_size, g) ==
    [i \in 0..(count_frames(impl, Len(file), frame_size) - 1) |->
        [j \in 0..(frame_size - 1) |->
            IF j < fread_count(Len(file), frame_size, i)
            THEN file[i * frame_size + j + 1]
            ELSE g]]

\* the bytes of yuv no store of convert_to_yuv420 writes
unwritten(impl, ctx) ==
    {k \in 0..(ctx.yuv_size - 1) : stores_to(impl, ctx, k) = {}}

\* yuv when convert_to_yuv420 is done with the frame rgb, having got a
\* buffer filled with g
yuv_data(impl, ctx, rgb, g) ==
    [k \in 0..(ctx.yuv_size - 1) |->
        IF k \in unwritten(impl, ctx) THEN g
        ELSE store_value(ctx, rgb, last_store(stores_to(impl, ctx, k)))]

\* the frames after the first k iterations of the loop of
\* create_delta_frames
RECURSIVE delta_frames_after(_, _)
delta_frames_after(frames, k) ==
    IF k = 0 THEN frames
    ELSE delta_frame(delta_frames_after(frames, k - 1),
                     delta_order(Size(frames))[k])

\* the frames when create_delta_frames returns
delta_frames(frames) ==
    delta_frames_after(frames, Size(delta_order(Size(frames))))

\* fwrite(&n, sizeof(int), 1, fp) of a non-negative int on a little-endian
\* machine with 32-bit int
int_bytes(n) ==
    <<n % 256, (n \div 256) % 256, (n \div 65536) % 256,
      (n \div 16777216) % 256>>

\* fwrite(&ctx.fps, sizeof(float), 1, fp) for 25 frames per second
fps_bytes == <<0, 0, 200, 65>>

\* a main of part_009 that would leave frame_count out of the metadata
file_header_without_count(m, ctx, frame_count) ==
    IF m = "part_009"
    THEN int_bytes(ctx.width) \o int_bytes(ctx.height) \o fps_bytes
    ELSE << >>

\* what main writes to the output file before the compressed data:
\* part_009 writes target_width, target_height, frame_count and fps,
\* main.c and vid_codec.c write nothing
file_header(m, ctx, frame_count) ==
    IF m = "part_009"
    THEN int_bytes(ctx.width) \o int_bytes(ctx.height)
             \o int_bytes(frame_count) \o fps_bytes
    ELSE << >>

\* ctx after init_encoder for the widths and heights a program can run with
main_contexts(m) ==
    IF m = "part_009"
    THEN {init_encoder(d[1], d[2]) : d \in TargetDims}
    ELSE {init_encoder(DefaultDims[1], DefaultDims[2])}

InitMain ==
    /\ IdleApp
    /\ IdleRle
    /\ IdleDelta
    /\ IdleZ
    /\ IdleRead
    /\ IdleColour
    /\ IdleGo
    /\ mimpl \in {"main_c", "vid_codec_c", "part_009"}
    /\ mpc = "m_start"
    /\ mctx \in main_contexts(mimpl)
    /\ \E n \in 0..MaxMainFrames :
       \E ps \in [1..n -> GoPictures(mctx.width, mctx.height)] :
       \E t \in GoTails :
           mfile = Concat(ps) \o t
    /\ mframes = << >>
    /\ mframe_count = -1
    /\ mi = 0
    /\ mstrm = << >>
    /\ mcompressed = "none"
    /\ mcompressed_size = -1
    /\ mout = << >>
    /\ mout_written = FALSE
    /\ mstatus = -1
    /\ mlog = << >>
    /\ mcause = "none"

\* part_009:239-253: parse_arguments, get_video_info or convert_to_raw
\* fails (no input file, ffprobe or ffmpeg fails): return 1
main_front_end_fails ==
    /\ mpc = "m_start"
    /\ mimpl = "part_009"
    /\ mpc' = "m_returned"
    /\ mstatus' = 1
    /\ mcause' = "front_end"
    /\ UNCHANGED <<mimpl, mctx, mfile, mframes, mframe_count, mi, mstrm,
                   mcompressed, mcompressed_size, mout, mout_written, mlog,
                   othersMain>>

\* read_frames cannot open the file and returns -1: main returns 1
main_read_frames_fopen_fails ==
    /\ mpc = "m_start"
    /\ IF read_failed(-1)
       THEN /\ mpc' = "m_returned"
            /\ mstatus' = 1
       ELSE /\ mpc' = "m_convert"
            /\ mstatus' = mstatus
    /\ mcause' = "fopen"
    /\ UNCHANGED <<mimpl, mctx, mfile, mframes, mframe_count, mi, mstrm,
                   mcompressed, mcompressed_size, mout, mout_written, mlog,
                   othersMain>>

\* read_frames opens the file, an allocation fails and it returns -1 (with
\* *frame_count set when the count loop was over): main returns 1
main_read_frames_malloc_fails ==
    /\ mpc = "m_start"
    /\ mframe_count' \in
           {mframe_count,
            count_frames(read_impl(mimpl), Len(mfile), mctx.frame_size)}
    /\ IF read_failed(-1)
       THEN /\ mpc' = "m_returned"
            /\ mstatus' = 1
       ELSE /\ mpc' = "m_convert"
            /\ mstatus' = mstatus
    /\ mcause' = "read_malloc"
    /\ UNCHANGED <<mimpl, mctx, mfile, mframes, mi, mstrm,
                   mcompressed, mcompressed_size, mout, mout_written, mlog,
                   othersMain>>

\* read_frames of part_005 opens the file, the allocation of the buffer of
\* a frame after the first fails and the clean-up frees frame_array more
\* than once: the allocator aborts the program
main_read_frames_double_free ==
    /\ mpc = "m_start"
    /\ \E i \in 0..(count_frames(read_impl(mimpl), Len(mfile),
                                  mctx.frame_size) - 1) :
           freed_twice(frees_on_failure(read_impl(mimpl), i))
    /\ mframe_count' =
           count_frames(read_impl(mimpl), Len(mfile), mctx.frame_size)
    /\ mpc' = "m_killed"
    /\ mcause' = "double_free"
    /\ UNCHANGED <<mimpl, mctx, mfile, mframes, mi, mstrm,
                   mcompressed, mcompressed_size, mout, mout_written,
                   mstatus, mlog, othersMain>>

\* read_frames returns 0 with *frames and *frame_count set
main_read_frames ==
    /\ mpc = "m_start"
    /\ \E g \in Garbage :
           mframes' = frames_of_file(read_impl(mimpl), mfile,
                                     mctx.frame_size, g)
    /\ mframe_count' =
           count_frames(read_impl(mimpl), Len(mfile), mctx.frame_size)
    /\ IF read_failed(0)
       THEN /\ mpc' = "m_returned"
            /\ mstatus' = 1
       ELSE /\ mpc' = "m_convert"
            /\ mstatus' = mstatus
    /\ mi' = 0
    /\ UNCHANGED <<mimpl, mctx, mfile, mstrm, mcompressed, mcompressed_size,
                   mout, mout_written, mlog, mcause, othersMain>>

\* one iteration of the conversion loop: convert_to_yuv420(&ctx, &frames[i])
\* with the buffer allocated.  Stores beyond the buffer damage the heap:
\* the program goes on or is killed.
main_convert ==
    /\ mpc = "m_convert"
    /\ mi < mframe_count
    /\ \E g \in Garbage :
           mframes' = [mframes EXCEPT ![mi] =
               yuv_data(convert_impl(mimpl), mctx, mframes[mi], g)]
    /\ mlog' = Append(mlog, <<"convert", mi>>)
    /\ mi' = mi + 1
    /\ \/ /\ mpc' = mpc
          /\ mcause' = mcause
       \/ /\ stores_outside(convert_impl(mimpl), mctx) # {}
          /\ mpc' = "m_killed"
          /\ mcause' = "heap"
    /\ UNCHANGED <<mimpl, mctx, mfile, mframe_count, mstrm, mcompressed,
                   mcompressed_size, mout, mout_written, mstatus,
                   othersMain>>

\* convert_to_yuv420 gets NULL from malloc and stores through it
main_convert_malloc_fails ==
    /\ mpc = "m_convert"
    /\ mi < mframe_count
    /\ mpc' = "m_killed"
    /\ mcause' = "null"
    /\ UNCHANGED <<mimpl, mctx, mfile, mframes, mframe_count, mi, mstrm,
                   mcompressed, mcompressed_size, mout, mout_written,
                   mstatus, mlog, othersMain>>

\* the conversion loop is over: create_delta_frames(frames, frame_count)
main_create_delta_frames ==
    /\ mpc = "m_convert"
    /\ mi >= mframe_count
    /\ mframes' = delta_frames(mframes)
    /\ mlog' = Append(mlog, <<"delta", mframe_count>>)
    /\ mpc' = "m_compress"
    /\ UNCHANGED <<mimpl, mctx, mfile, mframe_count, mi, mstrm, mcompressed,
                   mcompressed_size, mout, mout_written, mstatus, mcause,
                   othersMain>>

\* the compress function fails before its loop (deflateInit, or malloc of
\* the output buffer, which malloc(0) may do as well) and returns NULL:
\* main returns 1
main_compress_setup_fails ==
    /\ mpc = "m_compress"
    /\ mcompressed' = "NULL"
    /\ mpc' = "m_returned"
    /\ mstatus' = 1
    /\ mcause' = "compress_setup"
    /\ UNCHANGED <<mimpl, mctx, mfile, mframes, mframe_count, mi, mstrm,
                   mcompressed_size, mout, mout_written, mlog, othersMain>>

\* deflateInit and malloc(total_size) succeed and the loop starts
main_compress_begin ==
    /\ mpc = "m_compress"
    /\ mstrm' = [pending |-> << >>, out |-> << >>,
                 avail_out |-> total_size(mframes)]
    /\ mi' = 0
    /\ mpc' = "m_deflate"
    /\ UNCHANGED <<mimpl, mctx, mfile, mframes, mframe_count, mcompressed,
                   mcompressed_size, mout, mout_written, mstatus, mlog,
                   mcause, othersMain>>

\* one iteration of the loop of the compress function; a deflate result
\* other than Z_OK makes it return NULL and main return 1
main_compress_deflate ==
    /\ mpc = "m_deflate"
    /\ mi < mframe_count
    /\ LET r == deflate(mstrm, ToSeq(mframes[mi]),
                        flush_arg(compress_impl(mimpl), mi, mframe_count))
       IN  /\ mstrm' = r.strm
           /\ IF r.ret # "Z_OK"
              THEN /\ mcompressed' = "NULL"
                   /\ mpc' = "m_returned"
                   /\ mstatus' = 1
                   /\ mcause' = "deflate"
              ELSE /\ mcompressed' = mcompressed
                   /\ mpc' = mpc
                   /\ mstatus' = mstatus
                   /\ mcause' = mcause
    /\ mlog' = Append(mlog, <<"deflate", mi>>)
    /\ mi' = mi + 1
    /\ UNCHANGED <<mimpl, mctx, mfile, mframes, mframe_count,
                   mcompressed_size, mout, mout_written, othersMain>>

\* the loop is over: *compressed_size = total_size - strm.avail_out and the
\* buffer is returned to main
main_compress_return ==
    /\ mpc = "m_deflate"
    /\ mi >= mframe_count
    /\ mcompressed' = "buffer"
    /\ mcompressed_size' = total_size(mframes) - mstrm.avail_out
    /\ mpc' = "m_save"
    /\ UNCHANGED <<mimpl, mctx, mfile, mframes, mframe_count, mi, mstrm,
                   mout, mout_written, mstatus, mlog, mcause, othersMain>>

\* fopen of the output file succeeds: the file is written, everything is
\* freed, return 0
main_save ==
    /\ mpc = "m_save"
    /\ mout' = file_header(mimpl, mctx, mframe_count)
                   \o SubSeq(mstrm.out, 1, mcompressed_size)
    /\ mout_written' = TRUE
    /\ mpc' = "m_returned"
    /\ mstatus' = 0
    /\ UNCHANGED <<mimpl, mctx, mfile, mframes, mframe_count, mi, mstrm,
                   mcompressed, mcompressed_size, mlog, mcause, othersMain>>

\* fopen of the output file gives NULL: if (fp) skips the writing,
\* everything is freed, return 0
main_save_fopen_fails ==
    /\ mpc = "m_save"
    /\ mpc' = "m_returned"
    /\ mstatus' = 0
    /\ mcause' = "fopen_output"
    /\ UNCHANGED <<mimpl, mctx, mfile, mframes, mframe_count, mi, mstrm,
                   mcompressed, mcompressed_size, mout, mout_written, mlog,
                   othersMain>>

NextMain ==
    \/ main_front_end_fails
    \/ main_read_frames_fopen_fails
    \/ main_read_frames_malloc_fails
    \/ main_read_frames_double_free
    \/ main_read_frames
    \/ main_convert
    \/ main_convert_malloc_fails
    \/ main_create_delta_frames
    \/ main_compress_setup_fails
    \/ main_compress_begin
    \/ main_compress_deflate
    \/ main_compress_return
    \/ main_save
    \/ main_save_fopen_fails

SpecMain == InitMain /\ [][NextMain]_vars

(***************************************************************************)
(* The C encoders and the Go encoder side by side: a behaviour is one run  *)
(* of a C main or the runs of main.go.                                     *)
(***************************************************************************)
InitEncoders == InitMain \/ InitGo

NextEncoders == NextMain \/ NextGo

SpecEncoders == InitEncoders /\ [][NextEncoders]_vars

(***************************************************************************)
(* The run-length encoding loop of main.go (main.go:161-176), run on one   *)
(* delta frame.  delta[j] of the Go slice is edelta[j + 1] here.           *)
(***************************************************************************)
\* a count that would go on to the end of the run, kept in a byte
go_run_count_uncapped(delta, j) ==
    LET goes_on(c) == j + c < Len(delta) /\ delta[j + c + 1] = delta[j + 1]
        stops == {c \in 0..Len(delta) : ~goes_on(c)}
    IN  (CHOOSE c \in stops : \A d \in stops : c <= d) % 256

\* for count = 0; count < 255 && j+int(count) < len(delta) &&
\*     delta[j+int(count)] == delta[j]; count++ {}
\* count when the loop is left: the first value the condition fails for
go_run_count(delta, j) ==
    LET goes_on(c) == /\ c < 255
                      /\ j + c < Len(delta)
                      /\ delta[j + c + 1] = delta[j + 1]
        stops == {c \in 0..255 : ~goes_on(c)}
    IN  CHOOSE c \in stops : \A d \in stops : c <= d

\* the delta frames the loop is run on: one to MaxRleRuns runs
RleDeltas ==
    UNION {{Concat([k \in 1..n |-> [q \in 1..rs[k][1] |-> rs[k][2]]]) :
               rs \in [1..n -> RleRunLengths \X RleBytes]} :
           n \in 1..MaxRleRuns}

InitRle ==
    /\ IdleApp
    /\ IdleDelta
    /\ IdleZ
    /\ IdleRead
    /\ IdleColour
    /\ IdleGo
    /\ IdleMain
    /\ edelta \in RleDeltas
    /\ ej = 0
    /\ erle = << >>
    /\ epc = "rle_loop"

\* one iteration of 'for j := 0; j < len(delta); { ... }': count the run at
\* j, append count and delta[j], j += int(count)
go_rle_run ==
    /\ epc = "rle_loop"
    /\ ej < Len(edelta)
    /\ LET count == go_run_count(edelta, ej)
       IN  /\ erle' = erle \o <<count, edelta[ej + 1]>>
           /\ ej' = ej + count
    /\ UNCHANGED <<edelta, epc, othersRle>>

\* the loop is over: encoded[i] = rle
go_rle_save ==
    /\ epc = "rle_loop"
    /\ ej >= Len(edelta)
    /\ epc' = "rle_saved"
    /\ UNCHANGED <<edelta, ej, erle, othersRle>>

NextRle ==
    \/ go_rle_run
    \/ go_rle_save

\* the loop is sequential code: it goes on as long as it can
SpecRle == InitRle /\ [][NextRle]_vars /\ WF_vars(NextRle)

(***************************************************************************)
(* The web front end, App.jsx: the state of VideoCodecApp and its          *)
(* handlers.  A field of the request is the string FormData.append makes   *)
(* of its value: "undefined" for a property the object does not have.      *)
(***************************************************************************)
\* fileDetails.width: handleFileChange sets file, name and size, no width
fileDetails_width(details) == "undefined"

\* useState('compress'), useState(false), useState(null), useState(null),
\* useState({width: '', height: '', num_frames: ''})
InitApp ==
    /\ IdleDelta
    /\ IdleZ
    /\ IdleRead
    /\ IdleColour
    /\ IdleGo
    /\ IdleMain
    /\ IdleRle
    /\ activeTab = "compress"
    /\ loading = FALSE
    /\ notification = "null"
    /\ fileDetails = "null"
    /\ formData = [width |-> "", height |-> "", num_frames |-> ""]
    /\ submitData = "none"

\* handleFileChange: a file was chosen (nothing happens without one)
handleFileChange ==
    /\ activeTab # "none"
    /\ \E file \in FileNames : fileDetails' = file
    /\ notification' = "null"
    /\ UNCHANGED <<activeTab, loading, formData, submitData, othersApp>>

\* handleInputChange: the user edits a field that is on the page
handleInputChange ==
    /\ activeTab # "none"
    /\ \E name \in {"width", "height", "num_frames"} :
       \E value \in FieldValues :
           /\ name = "num_frames" => activeTab = "decompress"
           /\ formData' = [formData EXCEPT ![name] = value]
    /\ UNCHANGED <<activeTab, loading, notification, fileDetails,
                   submitData, othersApp>>

\* processVideo: the form is submitted (the button is enabled with a file
\* chosen and nothing loading, and the browser asks for the required
\* fields); the request is built and sent
processVideo ==
    /\ activeTab # "none"
    /\ ~loading
    /\ fileDetails # "null"
    /\ formData.width # ""
    /\ formData.height # ""
    /\ activeTab = "decompress" => formData.num_frames # ""
    /\ loading' = TRUE
    /\ notification' = "null"
    /\ submitData' =
           [api |-> activeTab,
            file |-> fileDetails,
            width |-> fileDetails_width(fileDetails),
            height |-> formData.height,
            num_frames |-> IF activeTab = "decompress"
                           THEN formData.num_frames ELSE "absent"]
    /\ UNCHANGED <<activeTab, fileDetails, formData, othersApp>>

\* processVideo, after the await: the response is in, or fetch failed
processVideo_response ==
    /\ loading
    /\ notification' \in {"success", "error"}
    /\ loading' = FALSE
    /\ UNCHANGED <<activeTab, fileDetails, formData, submitData, othersApp>>

\* resetForm, from the Clear button
resetForm ==
    /\ activeTab # "none"
    /\ fileDetails' = "null"
    /\ notification' = "null"
    /\ formData' = [width |-> "", height |-> "", num_frames |-> ""]
    /\ UNCHANGED <<activeTab, loading, submitData, othersApp>>

\* a tab button: setActiveTab(tab); resetForm()
setActiveTab ==
    /\ activeTab # "none"
    /\ \E tab \in {"compress", "decompress"} : activeTab' = tab
    /\ fileDetails' = "null"
    /\ notification' = "null"
    /\ formData' = [width |-> "", height |-> "", num_frames |-> ""]
    /\ UNCHANGED <<loading, submitData, othersApp>>

NextApp ==
    \/ handleFileChange
    \/ handleInputChange
    \/ processVideo
    \/ processVideo_response
    \/ resetForm
    \/ setActiveTab

SpecApp == InitApp /\ [][NextApp]_vars

(***************************************************************************)
(* Properties of the delta passes, checked under SpecDelta.                *)
(***************************************************************************)
\* C1: running the reconstruction loop of decode_frames (ascending i,
\* frame[i][j] += frame[i-1][j] mod 256) on the result of create_delta_frames
\* gives back every frame of the sequence byte for byte, for every
\* frame_count >= 0.
C1_DeltaRoundTrip == (dpc = "done") => (dframes = dorig)

\* C1 witness: a sequence of three frames has gone through both passes, and
\* one of its differences wrapped around (1 - 255).
C1_Witness ==
    /\ dpc = "done"
    /\ Size(dframes) = 3
    /\ dorig[1][0] = 255
    /\ dorig[2][0] = 1

\* C5: when create_delta_frames has returned, every byte j of every frame
\* i >= 1 is (orig[i][j] - orig[i-1][j]) mod 256, orig being the frames as they
\* were before the pass: no predecessor was read after it was overwritten.
C5_DeltaFromOriginal ==
    (dpc = "recon" /\ dk = 0) =>
        \A i \in 1..(Size(dframes) - 1) : \A j \in DOMAIN dframes[i] :
            dframes[i][j] = (dorig[i][j] - dorig[i - 1][j] + 256) % 256

\* C5 witness: create_delta_frames has returned on three frames whose
\* anchor is not zero, and one difference wrapped around (0 - 255 = 1).
C5_Witness ==
    /\ dpc = "recon"
    /\ dk = 0
    /\ Size(dframes) = 3
    /\ dorig[0][0] = 1
    /\ dorig[1][0] = 255
    /\ dorig[2][0] = 0
    /\ dframes[2][0] = 1

\* C6: frame 0, the anchor, keeps every byte it had before the passes, in
\* every state of create_delta_frames and of the reconstruction loop.
C6_AnchorUntouched ==
    (Size(dframes) >= 1) => (dframes[0] = dorig[0])

\* C6 witness: both passes have run over at least two frames with an anchor
\* that is not zero, so the delta arithmetic had something to change.
C6_Witness ==
    /\ dpc = "done"
    /\ Size(dframes) >= 2
    /\ dorig[0][0] = 255
    /\ dorig[1][0] = 1

(***************************************************************************)
(* Properties of compression and decompression, checked under SpecZ.       *)
(***************************************************************************)
\* C2: whenever compress_frames has returned a payload for the bytes X of
\* the frames and decode_frames has inflated that payload into frame_count
\* buffers of yuv_size bytes, the buffers hold exactly X (the state before
\* the delta reconstruction).
C2_EntropyRoundTrip ==
    (zpc = "df_recon" /\ zi = 0 /\ zsource = "compressed") => (zout = zframes)

\* C7: when every chunk of frame_count >= 1 frames has been fed, Z_FINISH was
\* the flush argument of the call for frame frame_count-1 and of no other
\* call, and the stream written to the output buffer is complete.
C7_FinishOnLastChunk ==
    (zpc = "cf_returned" /\ zret = "buffer" /\ Size(zframes) >= 1) =>
        /\ zcalls = [k \in 1..Size(zframes) |->
                        IF k = Size(zframes) THEN "Z_FINISH" ELSE "Z_NO_FLUSH"]
        /\ ZComplete(SubSeq(strm.out, 1, compressed_size))

\* C8: decode_frames goes on to the delta reconstruction, and returns frames,
\* only if inflate produced all frame_count * yuv_size bytes.
C8_ShortPayloadIsAnError ==
    (zpc \in {"df_recon", "df_returned"}) =>
        (zproduced = total_size(zframes))

(***************************************************************************)
(* Properties of read_frames, checked under SpecRead.                      *)
(***************************************************************************)
\* C9: when read_frames has returned 0 for a file of L bytes, frame_count is
\* floor(L / frame_size) and frame i holds the file's bytes
\* [i*frame_size, (i+1)*frame_size): a shorter trailing chunk is not counted
\* and is in no frame.
C9_FrameSplitting ==
    (rpc = "rf_returned" /\ rret = 0) =>
        /\ rframe_count = Len(rfile) \div rctx.frame_size
        /\ Size(frame_array) = rframe_count
        /\ \A i \in DOMAIN frame_array : \A j \in 0..(rctx.frame_size - 1) :
               /\ i * rctx.frame_size + j + 1 <= Len(rfile)
               /\ frame_array[i][j] = rfile[i * rctx.frame_size + j + 1]

(***************************************************************************)
(* Properties of convert_to_yuv420, checked under SpecColour.              *)
(***************************************************************************)
\* C10: when convert_to_yuv420 has returned for an even width and height,
\* the buffer has yuv_size bytes, the Y sample of every pixel is at offset
\* row*width + col, the U sample of every pixel of even row and column is at
\* index (row/2)*(width/2) + col/2 of the U plane (which starts at w*h), its
\* V sample at the same index of the V plane (which starts at w*h + w*h/4),
\* and every byte of the two chroma planes was written exactly once.
C10_PlanarLayout ==
    (cpc = "cv_returned" /\ cctx.width % 2 = 0 /\ cctx.height % 2 = 0) =>
        LET w == cctx.width
            h == cctx.height
        IN  /\ Size(cframe.data) = cctx.yuv_size
            /\ \A i \in 0..(h - 1) : \A j \in 0..(w - 1) :
                   LET px == pixel_at(crgb, w, i, j)
                       c == (i \div 2) * (w \div 2) + (j \div 2)
                   IN  /\ cframe.data[i * w + j] = clamp_to_byte(luma_of(px))
                       /\ (i % 2 = 0 /\ j % 2 = 0) =>
                            /\ cframe.data[w * h + c]
                                   = clamp_to_byte(chroma_u_of(px))
                            /\ cframe.data[w * h + ((w * h) \div 4) + c]
                                   = clamp_to_byte(chroma_v_of(px))
            /\ \A k \in (w * h)..(cctx.yuv_size - 1) : cwrites[k] = 1

(***************************************************************************)
(* Properties of main.go, checked under SpecGo.                            *)
(***************************************************************************)
\* C3 (as stated): when a run of main.go on k >= 1 whole frames has written
\* decoded.rgb24, the luma value (0.299R + 0.587G + 0.114B, truncated) of
\* every decoded pixel equals the luma value of the same pixel of the input.
C3_LumaOfDecodedPixels ==
    (/\ gpc = "exit"
     /\ Len(gstdin) >= gwidth * gheight * 3
     /\ Len(gstdin) % (gwidth * gheight * 3) = 0) =>
        /\ Len(gdecoded_rgb24) = Len(gstdin)
        /\ \A p \in 0..((Len(gstdin) \div 3) - 1) :
               (299 * gdecoded_rgb24[3 * p + 1] + 587 * gdecoded_rgb24[3 * p + 2]
                   + 114 * gdecoded_rgb24[3 * p + 3]) \div 1000
               = (299 * gstdin[3 * p + 1] + 587 * gstdin[3 * p + 2]
                   + 114 * gstdin[3 * p + 3]) \div 1000

\* C3 (amended): the luma plane reaches the decoder's inverse transform
\* exactly.  When the decoder has rebuilt its frames from the deltas (the
\* frames it writes to decoded.yuv), there is one frame for every whole
\* frame of the input and byte p of frame i is the luma value
\* (0.299R + 0.587G + 0.114B, truncated) of pixel p of input frame i.
C3_LumaPlaneCarried ==
    (gpc = "to_rgb") =>
        LET n == gwidth * gheight
            k == Len(gstdin) \div (3 * n)
        IN  /\ Size(gdecodedFrames) = k
            /\ \A i \in 0..(k - 1) : \A p \in 0..(n - 1) :
                   gdecodedFrames[i][p]
                   = (299 * gstdin[3 * (i * n + p) + 1]
                      + 587 * gstdin[3 * (i * n + p) + 2]
                      + 114 * gstdin[3 * (i * n + p) + 3]) \div 1000

\* a 2x6 run whose first frame starts with a red pixel (luma 76) and whose
\* second frame starts with a blue one (luma 29), rebuilt from the deltas
C3_Witness ==
    /\ gpc = "to_rgb"
    /\ gpass = 1
    /\ gwidth = 2
    /\ gheight = 6
    /\ Size(gdecodedFrames) = 2
    /\ gstdin[1] = 255
    /\ gstdin[39] = 255
    /\ gdecodedFrames[0][0] = 76
    /\ gdecodedFrames[1][0] = 29

\* C4 (as stated): a second run of main.go, on the decoded.rgb24 of a first
\* run that had k >= 1 frames, writes the same decoded.rgb24 as the first.
C4_SecondRunSameOutput ==
    (/\ gpc = "exit"
     /\ gpass >= 2
     /\ Len(gprevious_rgb24) >= gwidth * gheight * 3) =>
        gdecoded_rgb24 = gprevious_rgb24

\* C4 (amended): in every run, the first or a later one, nothing is lost
\* between the two colour transforms: the frames the decoder has rebuilt
\* (decoded.yuv) are byte for byte the frames the forward transform
\* produced (encoded.yuv).  The RGB output of a second run need not equal
\* that of the first.
C4_NoLossBetweenTransforms ==
    (gpc = "to_rgb") => (gdecoded_yuv = gencoded_yuv)

\* a second run on two 2x6 frames that differ in their first luma byte
C4_Witness ==
    /\ gpc = "to_rgb"
    /\ gpass = 2
    /\ gwidth = 2
    /\ gheight = 6
    /\ Len(gdecoded_yuv) = 36
    /\ gdecoded_yuv[1] # gdecoded_yuv[19]
    /\ gdecoded_yuv = go_join(gframes)

(***************************************************************************)
(* Properties of the forward colour transforms, checked under              *)
(* SpecTransforms.                                                         *)
(***************************************************************************)
\* C11: after the forward transform the byte at Y[row*width + col] of every
\* frame is 0.299R + 0.587G + 0.114B, clamped to 0..255 and truncated, of the
\* R, G, B bytes at offset (row*width + col)*3 of the RGB frame; in
\* convert_to_yuv420 (when it has returned) and in main.go (when the loop
\* over the frames is done).
C11_ForwardLuma ==
    /\ (cpc = "cv_returned") =>
           \A i \in 0..(cctx.height - 1) : \A j \in 0..(cctx.width - 1) :
               LET o == (i * cctx.width + j) * 3
                   y == 299 * crgb[o] + 587 * crgb[o + 1] + 114 * crgb[o + 2]
               IN  cframe.data[i * cctx.width + j]
                   = (IF y < 0 THEN 0 ELSE IF y > 255000 THEN 255000 ELSE y)
                         \div 1000
    /\ (gpc = "write_encoded") =>
           \A f \in DOMAIN gframes :
           \A i \in 0..(gheight - 1) : \A j \in 0..(gwidth - 1) :
               LET o == f * gwidth * gheight * 3 + (i * gwidth + j) * 3
                   y == 299 * gstdin[o + 1] + 587 * gstdin[o + 2]
                        + 114 * gstdin[o + 3]
               IN  gframes[f][i * gwidth + j]
                   = (IF y < 0 THEN 0 ELSE IF y > 255000 THEN 255000 ELSE y)
                         \div 1000

\* convert_to_yuv420 of main.c has returned for a 2x2 frame whose first
\* pixel is red (luma 76) and whose last pixel is blue (luma 29)
C11_Witness ==
    /\ cpc = "cv_returned"
    /\ cimpl = "main_c"
    /\ cctx.width = 2
    /\ cctx.height = 2
    /\ crgb[0] = 255
    /\ crgb[11] = 255
    /\ cframe.data[0] = 76
    /\ cframe.data[3] = 29

\* C12: every stored U and V byte of a 2x2 block is the clamped, truncated
\* -0.169R - 0.331G + 0.449B + 128 resp. 0.499R - 0.418G - 0.0813B + 128 of
\* the one pixel at the block's even row and even column, whatever the other
\* three pixels are; in convert_to_yuv420 of main.c (even width and height)
\* and in main.go.
C12_ChromaSampled ==
    /\ (/\ cpc = "cv_returned"
        /\ cimpl = "main_c"
        /\ cctx.width % 2 = 0
        /\ cctx.height % 2 = 0) =>
           \A i \in 0..(cctx.height - 1) : \A j \in 0..(cctx.width - 1) :
               (i % 2 = 0 /\ j % 2 = 0) =>
                   LET w == cctx.width
                       h == cctx.height
                       o == (i * w + j) * 3
                       c == (i \div 2) * (w \div 2) + (j \div 2)
                       u == -1690 * crgb[o] - 3310 * crgb[o + 1]
                            + 4490 * crgb[o + 2] + 1280000
                       v == 4990 * crgb[o] - 4180 * crgb[o + 1]
                            - 813 * crgb[o + 2] + 1280000
                   IN  /\ cframe.data[w * h + c]
                          = (IF u < 0 THEN 0
                             ELSE IF u > 2550000 THEN 2550000 ELSE u)
                                \div 10000
                       /\ cframe.data[w * h + ((w * h) \div 4) + c]
                          = (IF v < 0 THEN 0
                             ELSE IF v > 2550000 THEN 2550000 ELSE v)
                                \div 10000
    /\ (gpc = "write_encoded") =>
           \A f \in DOMAIN gframes :
           \A i \in 0..(gheight - 1) : \A j \in 0..(gwidth - 1) :
               (i % 2 = 0 /\ j % 2 = 0) =>
                   LET w == gwidth
                       h == gheight
                       o == f * w * h * 3 + (i * w + j) * 3
                       c == (i \div 2) * (w \div 2) + (j \div 2)
                       u == -1690 * gstdin[o + 1] - 3310 * gstdin[o + 2]
                            + 4490 * gstdin[o + 3] + 1280000
                       v == 4990 * gstdin[o + 1] - 4180 * gstdin[o + 2]
                            - 813 * gstdin[o + 3] + 1280000
                   IN  /\ gframes[f][w * h + c]
                          = (IF u < 0 THEN 0
                             ELSE IF u > 2550000 THEN 2550000 ELSE u)
                                \div 10000
                       /\ gframes[f][w * h + ((w * h) \div 4) + c]
                          = (IF v < 0 THEN 0
                             ELSE IF v > 2550000 THEN 2550000 ELSE v)
                                \div 10000

(***************************************************************************)
(* Properties of the decoder of main.go, checked under SpecGo.             *)
(***************************************************************************)
\* C13: when main.go has converted the decoded frames to RGB, the three
\* bytes of every pixel (row, col) of every frame are clamp(y + 1.402v),
\* clamp(y - 0.344u - 0.714v), clamp(y + 1.772u), clamped to 0..255 and
\* truncated, with y = Y[row*width + col], u = U[(row/2)*(width/2) + col/2]
\* - 128 and v = V[(row/2)*(width/2) + col/2] - 128, the U plane starting at
\* offset w*h of the decoded YUV420 frame and the V plane at w*h + w*h/4.
C13_InverseTransform ==
    (gpc = "write_rgb") =>
        /\ Len(gdecoded_yuv) = Size(gdecodedFrames) * ((gwidth * gheight * 3) \div 2)
        /\ \A f \in DOMAIN gdecodedFrames :
           \A i \in 0..(gheight - 1) : \A j \in 0..(gwidth - 1) :
               LET w == gwidth
                   h == gheight
                   base == f * ((w * h * 3) \div 2)
                   c == (i \div 2) * (w \div 2) + (j \div 2)
                   y == gdecoded_yuv[base + i * w + j + 1]
                   u == gdecoded_yuv[base + w * h + c + 1] - 128
                   v == gdecoded_yuv[base + w * h + ((w * h) \div 4) + c + 1]
                        - 128
                   r == 1000 * y + 1402 * v
                   g == 1000 * y - 344 * u - 714 * v
                   b == 1000 * y + 1772 * u
                   o == (i * w + j) * 3
               IN  /\ gdecodedFrames[f][o]
                      = (IF r < 0 THEN 0 ELSE IF r > 255000 THEN 255000 ELSE r)
                            \div 1000
                   /\ gdecodedFrames[f][o + 1]
                      = (IF g < 0 THEN 0 ELSE IF g > 255000 THEN 255000 ELSE g)
                            \div 1000
                   /\ gdecodedFrames[f][o + 2]
                      = (IF b < 0 THEN 0 ELSE IF b > 255000 THEN 255000 ELSE b)
                            \div 1000

(***************************************************************************)
(* Properties of decode_frames as the decoder, checked under SpecZ.        *)
(***************************************************************************)
\* C14: when decode_frames has returned for the complete payload of
\* frame_count frames of width*height pixels (yuv_size = w*h + w*h/2 bytes
\* each as compressed), it has produced frame_count frames and each is an
\* RGB24 frame of w*h*3 bytes.
C14_DecodeYieldsRGB24 ==
    (zpc = "df_returned" /\ payload = ZEncode(Flat(zframes))) =>
        /\ Size(zout) = Size(zframes)
        /\ \A i \in DOMAIN zout :
               \E n \in 1..Size(zframes[i]) :
                   /\ n + (n \div 2) = Size(zframes[i])
                   /\ Size(zout[i]) = n * 3

\* C15 (checked under SpecTransforms): for every positive width and height
\* the chroma indices stay in bounds.  convert_to_yuv420 stores nothing
\* beyond the yuv_size bytes of its buffer and every index it uses for U and
\* for V is below w*h/4; main.go never leaves a slice (it would end in a
\* run-time panic).
C15_ChromaIndicesInBounds ==
    /\ (cpc = "cv_returned") =>
           /\ coutside = {}
           /\ \A i \in 0..(cctx.height - 1) : \A j \in 0..(cctx.width - 1) :
                  (i % 2 = 0 /\ j % 2 = 0) =>
                      (i \div 2) * (cctx.width \div 2) + (j \div 2)
                          < (cctx.width * cctx.height) \div 4
    /\ gpc # "panic"

(***************************************************************************)
(* Properties of the encoders, checked under SpecEncoders.                 *)
(***************************************************************************)
\* C16: whenever the input frames i-1 and i (i >= 1) are byte-identical,
\* delta frame i consists of zero bytes only: in the C encoders when
\* create_delta_frames has returned, in main.go in what was written to the
\* compressor.
C16_IdenticalFramesZeroDelta ==
    /\ (mpc = "m_compress") =>
           \A i \in 1..((Len(mfile) \div mctx.frame_size) - 1) :
               (\A j \in 1..mctx.frame_size :
                    mfile[i * mctx.frame_size + j]
                    = mfile[(i - 1) * mctx.frame_size + j])
               => \A k \in DOMAIN mframes[i] : mframes[i][k] = 0
    /\ (gpc = "inflate") =>
           LET fs == gwidth * gheight * 3
               ys == gwidth * gheight + 2 * ((gwidth * gheight) \div 4)
           IN  \A i \in 1..((Len(gstdin) \div fs) - 1) :
                   (\A j \in 1..fs :
                        gstdin[i * fs + j] = gstdin[(i - 1) * fs + j])
                   => \A k \in 1..ys :
                          flate_Reader(gdeflated)[i * ys + k] = 0

C18_StageOrdering ==
    LET Pos(L, steps) == {p \in DOMAIN L : L[p][1] \in steps}
        Before(L, first, then) ==
            \A p \in Pos(L, first) : \A q \in Pos(L, then) : p < q
        InOrder(L, step) ==
            LET F == SelectSeq(L, LAMBDA e : e[1] = step)
            IN  \A k \in DOMAIN F : F[k][2] = k - 1
        AllConverted(L, deltas, n) ==
            \A q \in Pos(L, deltas) :
                Cardinality({p \in Pos(L, {"convert"}) : p < q}) = n
    IN  /\ Before(mlog, {"convert"}, {"delta"})
        /\ AllConverted(mlog, {"delta"}, mframe_count)
        /\ Before(mlog, {"delta"}, {"deflate"})
        /\ InOrder(mlog, "convert")
        /\ InOrder(mlog, "deflate")
        /\ Before(glog, {"convert"}, {"rle", "delta"})
        /\ AllConverted(glog, {"rle", "delta"}, Size(gframes))
        /\ Before(glog, {"rle", "delta"}, {"write"})
        /\ InOrder(glog, "convert")
        /\ InOrder(glog, "write")

\* C18 as the programs have it.  The C mains: every frame is converted
\* before create_delta_frames is called, which returns before the first
\* deflate call; the frames are given to deflate in index order, each once,
\* and what deflate has been given is frame 0 as converted followed by the
\* deltas of the later frames (compared on the bytes convert_to_yuv420
\* stores to); a deflate call that fails for want of room takes nothing and
\* ends the run.  main.go: every frame is converted before the run-length
\* delta pass, which is over before the flate writer is given anything; the
\* loop that writes to the flate writer computes the delta of frame i >= 1
\* itself, right before it writes it, after the chunks 0..i-1 have been
\* written; the chunks are written in index order, each once, and the
\* writer's input is frame 0 of encoded.yuv followed by the deltas.
C18_StagesInOrder ==
    LET Pos(L, steps) == {p \in DOMAIN L : L[p][1] \in steps}
        Before(L, first, then) ==
            \A p \in Pos(L, first) : \A q \in Pos(L, then) : p < q
        InOrder(L, step) ==
            LET F == SelectSeq(L, LAMBDA e : e[1] = step)
            IN  \A k \in DOMAIN F : F[k][2] = k - 1
        AllConverted(L, deltas, n) ==
            \A q \in Pos(L, deltas) :
                Cardinality({p \in Pos(L, {"convert"}) : p < q}) = n
        fed == Cardinality(Pos(mlog, {"deflate"}))
        taken == Len(mstrm.pending) \div mctx.yuv_size
        whole == Len(mfile) \div mctx.frame_size
        ys == mctx.yuv_size
        rgb(i) == [j \in 0..(mctx.frame_size - 1) |->
                      mfile[i * mctx.frame_size + j + 1]]
        stored == {k \in 0..(ys - 1) :
                      stores_to(convert_impl(mimpl), mctx, k) # {}}
        gys == IF Size(gframes) = 0 THEN 0
               ELSE Len(gencoded_yuv) \div Size(gframes)
    IN  /\ Before(mlog, {"convert"}, {"delta"})
        /\ AllConverted(mlog, {"delta"}, mframe_count)
        /\ Before(mlog, {"delta"}, {"deflate"})
        /\ InOrder(mlog, "convert")
        /\ InOrder(mlog, "deflate")
        /\ (fed > 0) =>
               /\ Len(mstrm.pending) = taken * ys
               /\ taken \in {fed - 1, fed}
               /\ (mcause # "deflate") => taken = fed
               /\ \A i \in 0..(taken - 1) : \A k \in 1..ys :
                      mstrm.pending[i * ys + k] = mframes[i][k - 1]
               /\ \A k \in stored :
                      LET s == last_store(stores_to(convert_impl(mimpl),
                                                    mctx, k))
                          yuv(i) == store_value(mctx, rgb(i), s)
                      IN  \A i \in 0..(Min(taken, whole) - 1) :
                              mstrm.pending[i * ys + k + 1]
                              = IF i = 0 THEN yuv(0)
                                ELSE (yuv(i) - yuv(i - 1) + 256) % 256
        /\ Before(glog, {"convert"}, {"rle", "delta"})
        /\ AllConverted(glog, {"rle", "delta"}, Size(gframes))
        /\ Before(glog, {"rle"}, {"write"})
        /\ InOrder(glog, "convert")
        /\ InOrder(glog, "write")
        /\ \A q \in DOMAIN glog :
               /\ (glog[q][1] = "delta") =>
                      /\ glog[q][2] >= 1
                      /\ q + 1 \in DOMAIN glog
                      /\ glog[q + 1] = <<"write", glog[q][2]>>
               /\ (glog[q][1] = "write" /\ glog[q][2] >= 1) =>
                      /\ q - 1 \in DOMAIN glog
                      /\ glog[q - 1] = <<"delta", glog[q][2]>>
        /\ (gpc = "inflate") =>
               /\ Cardinality(Pos(glog, {"write"})) = Size(gframes)
               /\ Len(gwritten) = Len(gencoded_yuv)
               /\ \A i \in 0..(Size(gframes) - 1) : \A k \in 1..gys :
                      gwritten[i * gys + k]
                      = IF i = 0 THEN gencoded_yuv[k]
                        ELSE (gencoded_yuv[i * gys + k]
                              - gencoded_yuv[(i - 1) * gys + k] + 256) % 256
               /\ flate_Reader(gdeflated) = gwritten

\* main.go has written two frames to the flate writer and closed it
C18_Witness ==
    /\ gpc = "inflate"
    /\ glog = << <<"convert", 0>>, <<"convert", 1>>, <<"rle", 1>>,
                 <<"write", 0>>, <<"delta", 1>>, <<"write", 1>> >>
    /\ Len(gwritten) = 2 * ((gwidth * gheight * 3) \div 2)
    /\ gwidth * gheight >= 12

(***************************************************************************)
(* C19: when the input file cannot be opened, read_frames returns -1       *)
(* having allocated nothing and left frames and frame_count as they were,  *)
(* and main returns 1: no frame is converted, create_delta_frames and the  *)
(* compress function are not called and no output file is written.         *)
(* Checked under SpecMain.                                                 *)
(***************************************************************************)
C19_UnopenableInput ==
    (mcause = "fopen") =>
        /\ mpc = "m_returned"
        /\ mstatus = 1
        /\ mframes = << >>
        /\ mframe_count = -1
        /\ mlog = << >>
        /\ mstrm = << >>
        /\ mcompressed = "none"
        /\ mcompressed_size = -1
        /\ ~mout_written
        /\ mout = << >>

\* main has returned after read_frames could not open a file holding two
\* frames
C19_Witness ==
    /\ mcause = "fopen"
    /\ mpc = "m_returned"
    /\ mstatus = 1
    /\ Len(mfile) >= 2 * mctx.frame_size

(***************************************************************************)
(* C20: no silent fallback on Encode: main returns 0 only when the         *)
(* compressed data has been written to the output file; when the output    *)
(* file cannot be opened main returns a failure status.  Checked under     *)
(* SpecMain.                                                               *)
(***************************************************************************)
C20_SuccessMeansWritten ==
    /\ (mpc = "m_returned" /\ mstatus = 0) => mout_written
    /\ (mpc = "m_returned" /\ mcause = "fopen_output") => mstatus # 0

(***************************************************************************)
(* C21: compress_frames returns NULL exactly when compression failed.  In  *)
(* particular, checked under SpecZ: when the last deflate call, made with  *)
(* Z_FINISH, has written the complete stream into the output buffer (zlib  *)
(* returns Z_STREAM_END), the function returns the buffer and sets         *)
(* *compressed_size to the length of the stream, for frame_count >= 1.     *)
(***************************************************************************)
C21_StreamEndIsSuccess ==
    (/\ zpc = "cf_returned"
     /\ Size(zframes) >= 1
     /\ Len(zcalls) = Size(zframes)
     /\ zcalls[Len(zcalls)] = "Z_FINISH"
     /\ ZComplete(strm.out)
     /\ strm.pending = Flat(zframes))
    => /\ zret = "buffer"
       /\ compressed_size = Len(strm.out)

(***************************************************************************)
(* C22: the encoded video is smaller than the input: whenever the compress *)
(* function has returned a buffer for frame_count >= 1 frames of positive  *)
(* width and height, compressed_size <= frame_count * yuv_size             *)
(* < frame_count * frame_size.  Checked under SpecMain, where ctx comes    *)
(* from init_encoder and compressed_size is the number of bytes deflate    *)
(* has put into the buffer.                                                *)
(***************************************************************************)
C22_EncodedSmallerThanInput ==
    (mcompressed = "buffer" /\ mframe_count >= 1) =>
        /\ mctx.width > 0
        /\ mctx.height > 0
        /\ mcompressed_size = Len(mstrm.out)
        /\ mcompressed_size <= mframe_count * mctx.yuv_size
        /\ mframe_count * mctx.yuv_size < mframe_count * mctx.frame_size

\* the compress function has returned a buffer with output in it for two
\* frames
C22_Witness ==
    /\ mcompressed = "buffer"
    /\ mframe_count = 2
    /\ mcompressed_size > 2
    /\ mpc = "m_save"

(***************************************************************************)
(* C23: frame length invariant, checked under SpecMain on the frames of    *)
(* the C encoders: after read_frames every frame has frame_size bytes, all *)
(* of them read from the file; a frame convert_to_yuv420 is done with has  *)
(* yuv_size bytes, all of them stored by the conversion; and               *)
(* create_delta_frames leaves every frame at yuv_size bytes.               *)
(***************************************************************************)
C23_FrameLengths ==
    LET fs == mctx.frame_size
        from_file(i) ==
            /\ Size(mframes[i]) = fs
            /\ \A j \in 0..(fs - 1) :
                   /\ i * fs + j + 1 <= Len(mfile)
                   /\ mframes[i][j] = mfile[i * fs + j + 1]
        converted(i) ==
            /\ Size(mframes[i]) = mctx.yuv_size
            /\ \A k \in 0..(mctx.yuv_size - 1) :
                   stores_to(convert_impl(mimpl), mctx, k) # {}
    IN  /\ (mpc = "m_convert") =>
               \A i \in DOMAIN mframes :
                   IF i < mi THEN converted(i) ELSE from_file(i)
        /\ (mpc \in {"m_compress", "m_deflate", "m_save"}) =>
               \A i \in DOMAIN mframes : converted(i)

(***************************************************************************)
(* C24: a buffer acquisition failure is fatal and reported.  Checked under *)
(* SpecMain for the YUV buffer of convert_to_yuv420: when malloc gives     *)
(* NULL, nothing is stored through the pointer and the run ends with main  *)
(* returning the failure status.                                           *)
(***************************************************************************)
C24_AllocationFailureReported ==
    (mcause = "null") =>
        /\ mpc # "m_killed"
        /\ (mpc = "m_returned" => mstatus = 1)

(***************************************************************************)
(* C25: run-length encoding of a delta frame in the Go encoder, checked    *)
(* under SpecRle.  At every point of the loop rle is a sequence of         *)
(* (count, value) pairs with every count in 1..255; the pairs describe the *)
(* consecutive runs of delta[0..j) in order, so expanding them gives back  *)
(* these bytes and the counts sum to j; every run is maximal unless its    *)
(* count is 255; 0,0,0,0,1,1,1,1,1,1,0,0,0,0 becomes 4,0,6,1,4,0; and the  *)
(* loop ends, with j = len(delta), for every delta.                        *)
(***************************************************************************)
C25_RunLengthEncoding ==
    /\ [](LET n == Len(erle) \div 2
              off[k \in 0..n] ==
                  IF k = 0 THEN 0 ELSE off[k - 1] + erle[2 * k - 1]
          IN  /\ Len(erle) = 2 * n
              /\ off[n] = ej
              /\ ej <= Len(edelta)
              /\ \A k \in 1..n :
                     /\ erle[2 * k - 1] \in 1..255
                     /\ \A p \in (off[k - 1] + 1)..off[k] :
                            edelta[p] = erle[2 * k]
                     /\ \/ erle[2 * k - 1] = 255
                        \/ off[k] = Len(edelta)
                        \/ edelta[off[k] + 1] # erle[2 * k]
              /\ (epc = "rle_saved") => (ej = Len(edelta))
              /\ (epc = "rle_saved"
                  /\ edelta = <<0, 0, 0, 0, 1, 1, 1, 1, 1, 1, 0, 0, 0, 0>>)
                     => (erle = <<4, 0, 6, 1, 4, 0>>))
    /\ <>(epc = "rle_saved")

\* the loop has encoded a delta with a run of 260 equal bytes, capped at 255
C25_Witness ==
    /\ epc = "rle_saved"
    /\ Len(edelta) = 266
    /\ erle = <<255, 1, 5, 1, 6, 0>>

(***************************************************************************)
(* C26: whenever the compress function returns a buffer, the buffer holds  *)
(* a complete, finished stream of exactly *compressed_size bytes: all the  *)
(* input of every frame was taken, the stream inflates to that input, and  *)
(* nothing was left out for want of room.  Checked under SpecZ.            *)
(***************************************************************************)
C26_ReturnedStreamIsComplete ==
    (zpc = "cf_returned" /\ zret = "buffer") =>
        LET returned == SubSeq(strm.out, 1, compressed_size)
        IN  /\ compressed_size = Len(strm.out)
            /\ strm.pending = Flat(zframes)
            /\ ZComplete(returned)
            /\ ZInflatable(returned) = Flat(zframes)
            /\ returned = ZEncode(Flat(zframes))

(***************************************************************************)
(* C27: when the allocation of the buffer of frame i fails inside          *)
(* read_frames, the function returns -1 having freed each of the i frame   *)
(* buffers allocated before exactly once and the frame array exactly once, *)
(* and *frames is not set.  Checked under SpecRead on the calls of free;   *)
(* only this clean-up makes more than one call.                            *)
(***************************************************************************)
C27_CleanupOnAllocationFailure ==
    (Len(rfrees) >= 2) =>
        LET times(what) == Cardinality({p \in DOMAIN rfrees : rfrees[p] = what})
        IN  /\ rpc = "rf_returned"
            /\ rret = -1
            /\ ~frames_set
            /\ \A j \in 0..(ri - 1) : times(<<"data", j>>) = 1
            /\ times(<<"frame_array", 0>>) = 1
            /\ times(<<"buffer", 0>>) = 1
            /\ Len(rfrees) = ri + 2

(***************************************************************************)
(* C28: size consistency of the YUV420 frame, checked under SpecMain on    *)
(* the contexts init_encoder makes, once a frame has been converted: the   *)
(* Y plane of w*h bytes and the U and V planes of w*h/4 bytes each fill    *)
(* the yuv_size = w*h + w*h/2 bytes of the frame, which is also the chunk  *)
(* size w*h*3/2 of the decoder, and convert_to_yuv420 stores to every byte *)
(* of the frame.                                                           *)
(***************************************************************************)
C28_PlanesFillFrame ==
    (mlog # << >>) =>
        LET w == mctx.width
            h == mctx.height
        IN  /\ w * h + 2 * ((w * h) \div 4) = mctx.yuv_size
            /\ mctx.yuv_size = w * h + ((w * h) \div 2)
            /\ mctx.yuv_size = (w * h * 3) \div 2
            /\ \A k \in 0..(mctx.yuv_size - 1) :
                   stores_to(convert_impl(mimpl), mctx, k) # {}

(***************************************************************************)
(* C29: in the web front end, after any sequence of file selections and    *)
(* field edits, the width and height sent with a request are the values    *)
(* the Width and Height fields hold when the form is submitted, and        *)
(* num_frames is sent exactly when the active tab is 'decompress'.         *)
(* Checked under SpecApp on every step that sends a request.               *)
(***************************************************************************)
C29_RequestCarriesFields ==
    [][(~loading /\ loading') =>
           /\ submitData'.api = activeTab
           /\ submitData'.width = formData.width
           /\ submitData'.height = formData.height
           /\ (submitData'.num_frames # "absent") <=> (activeTab = "decompress")
           /\ (activeTab = "decompress") =>
                  (submitData'.num_frames = formData.num_frames)]_vars

====
